---- MODULE Spec2Model ----
(***************************************************************************)
(* A model of the go-wolf HTTP router: the per-method path tries, the      *)
(* registration entry point Router.Handle, the dispatch loop               *)
(* Router.ServeHTTP and the middleware composition.                        *)
(*                                                                         *)
(* Strings are sequences of one-character strings, so that prefixes,       *)
(* slices and byte comparisons are computed and not assumed.               *)
(***************************************************************************)
EXTENDS Integers, Sequences, FiniteSets, TLC

VARIABLES trees, inserted, lastOp, ctx, resp, events, built, groups, hooks,
          writer, pool, util, registry

vars == <<trees, inserted, lastOp, ctx, resp, events, built, groups, hooks,
          writer, pool, util, registry>>

\* What the router's registration and dispatch do not touch: the route
\* groups with the arrays behind their middleware slices, the router's
\* notFoundHandler and methodNotAllowedHandler, a response Writer with the
\* goroutines that call it, the context pool with its workers, the last
\* call of a utility function, and the route records of the router.
aside == <<groups, hooks, writer, pool, util, registry>>

(***************************************************************************)
(* Bounds of the model.                                                    *)
(***************************************************************************)
\* Insertions into one trie.
MaxRoutes == 3

\* Routes registered through Router.Handle.
MaxHandle == 2

\* Segments of a looked-up path.
MaxSegs == 3

\* Middleware of one chain.
MaxMw == 3

(***************************************************************************)
(* String helpers.                                                         *)
(***************************************************************************)
Markers == {":", "*"}

Drop(s, n) == SubSeq(s, n + 1, Len(s))

Take(s, n) == SubSeq(s, 1, n)

IsPrefix(a, b) == Len(a) <= Len(b) /\ Take(b, Len(a)) = a

SetMin(S) == CHOOSE x \in S : \A y \in S : x <= y

SetMax(S) == CHOOSE x \in S : \A y \in S : x >= y

(***************************************************************************)
(* router.go: the utility functions of the radix tree.                     *)
(***************************************************************************)
\* A mutant of countParams: the loop counts the ':' bytes only.
countParamsColonsOnly(path) == Cardinality({k \in 1..Len(path) : path[k] = ":"}) % 256

\* countParams: the number of ':' and '*' bytes, in a uint8.
countParams(path) == Cardinality({k \in 1..Len(path) : path[k] \in Markers}) % 256

min(a, b) == IF a < b THEN a ELSE b

\* A mutant of longestCommonPrefix: the loop does not compare the bytes.
longestCommonPrefixNoCompare(a, b) == min(Len(a), Len(b))

\* longestCommonPrefix: the number of leading bytes a and b share.
longestCommonPrefix(a, b) ==
    LET max == min(Len(a), Len(b))
        diff == {k \in 1..max : a[k] # b[k]}
    IN  IF diff = {} THEN max ELSE SetMin(diff) - 1

\* A mutant of findWildcard: the start index is one too far.
findWildcardIndexOff(path) ==
    LET starts == {k \in 1..Len(path) : path[k] \in Markers}
    IN  IF starts = {}
        THEN [wildcard |-> <<>>, i |-> -1, valid |-> FALSE]
        ELSE LET start == SetMin(starts)
                 rest == Drop(path, start)
                 slashes == {e \in 1..Len(rest) : rest[e] = "/"}
                 endpos == IF slashes = {} THEN Len(rest) + 1 ELSE SetMin(slashes)
             IN  [wildcard |-> SubSeq(path, start, start + endpos - 1),
                  i |-> start,
                  valid |-> \A e \in 1..(endpos - 1) : rest[e] \notin Markers]

\* A mutant of findWildcard: only '*' starts a wildcard.
findWildcardNoParam(path) ==
    LET starts == {k \in 1..Len(path) : path[k] = "*"}
    IN  IF starts = {}
        THEN [wildcard |-> <<>>, i |-> -1, valid |-> FALSE]
        ELSE LET start == SetMin(starts)
                 rest == Drop(path, start)
                 slashes == {e \in 1..Len(rest) : rest[e] = "/"}
                 endpos == IF slashes = {} THEN Len(rest) + 1 ELSE SetMin(slashes)
             IN  [wildcard |-> SubSeq(path, start, start + endpos - 1),
                  i |-> start - 1,
                  valid |-> \A e \in 1..(endpos - 1) : rest[e] \notin Markers]

\* A mutant of findWildcard: only ':' starts a wildcard.
findWildcardNoCatchAll(path) ==
    LET starts == {k \in 1..Len(path) : path[k] = ":"}
    IN  IF starts = {}
        THEN [wildcard |-> <<>>, i |-> -1, valid |-> FALSE]
        ELSE LET start == SetMin(starts)
                 rest == Drop(path, start)
                 slashes == {e \in 1..Len(rest) : rest[e] = "/"}
                 endpos == IF slashes = {} THEN Len(rest) + 1 ELSE SetMin(slashes)
             IN  [wildcard |-> SubSeq(path, start, start + endpos - 1),
                  i |-> start - 1,
                  valid |-> \A e \in 1..(endpos - 1) : rest[e] \notin Markers]

\* findWildcard: the first wildcard of path, its 0-based start index and
\* whether it is valid.  The wildcard runs from its marker up to the next '/'
\* (or the end of path); a further ':' or '*' on the way clears valid and the
\* scan goes on.
findWildcard(path) ==
    LET starts == {k \in 1..Len(path) : path[k] \in Markers}
    IN  IF starts = {}
        THEN [wildcard |-> <<>>, i |-> -1, valid |-> FALSE]
        ELSE LET start == SetMin(starts)
                 rest == Drop(path, start)
                 slashes == {e \in 1..Len(rest) : rest[e] = "/"}
                 endpos == IF slashes = {} THEN Len(rest) + 1 ELSE SetMin(slashes)
             IN  [wildcard |-> SubSeq(path, start, start + endpos - 1),
                  i |-> start - 1,
                  valid |-> \A e \in 1..(endpos - 1) : rest[e] \notin Markers]

(***************************************************************************)
(* The path trie (component A of the specification): one compressed radix  *)
(* tree per method.  A node is a record; children and wildChild hold the    *)
(* sub-nodes themselves, and a nil pointer is the empty sequence.           *)
(***************************************************************************)
ErrMalformed == "malformed pattern"

ErrDuplicate == "duplicate pattern"

ErrConflict == "wildcard conflict"

\* &node{}: the zero node a tree starts from.
emptyNode ==
    [path |-> <<>>, nType |-> "static", children |-> <<>>, wildChild |-> <<>>,
     handle |-> <<>>, priority |-> 0, maxParams |-> 0]

\* indices: the first byte of every static child, in the children's order.
indices(n) == [k \in 1..Len(n.children) |-> n.children[k].path[1]]

RECURSIVE Split(_)
\* The pieces of s between its '/' bytes.
Split(s) ==
    LET sl == {k \in 1..Len(s) : s[k] = "/"}
    IN  IF sl = {} THEN <<s>>
        ELSE <<Take(s, SetMin(sl) - 1)>> \o Split(Drop(s, SetMin(sl)))

\* The pattern grammar: a leading '/', a marker only at the start of a
\* segment and followed by a name, one marker per segment, a catch-all only
\* as the last segment.
validPattern(p) ==
    /\ Len(p) >= 1
    /\ p[1] = "/"
    /\ LET segs == Tail(Split(p))
       IN  \A k \in 1..Len(segs) :
              LET s == segs[k]
                  ms == {j \in 1..Len(s) : s[j] \in Markers}
              IN  \/ ms = {}
                  \/ /\ ms = {1}
                     /\ Len(s) >= 2
                     /\ (s[1] = "*" => k = Len(segs))

RECURSIVE insertChild(_, _)
\* The chain of fresh nodes that holds the remaining pattern r: the static
\* prefix up to the first wildcard, the wildcard node, and what follows it.
insertChild(r, h) ==
    LET fw == findWildcard(r)
        base == [path |-> r, nType |-> "static", children |-> <<>>,
                 wildChild |-> <<>>, handle |-> <<>>, priority |-> 1,
                 maxParams |-> countParams(r)]
    IN  IF fw.i = -1 THEN [base EXCEPT !.handle = <<h>>]
        ELSE IF fw.i > 0
        THEN [base EXCEPT !.path = Take(r, fw.i),
                          !.wildChild = <<insertChild(Drop(r, fw.i), h)>>]
        ELSE LET rest == Drop(r, Len(fw.wildcard))
             IN  IF r[1] = "*"
                 THEN [base EXCEPT !.path = fw.wildcard, !.nType = "catchAll",
                                   !.handle = <<h>>]
                 ELSE [base EXCEPT !.path = fw.wildcard, !.nType = "param",
                                   !.handle = IF rest = <<>> THEN <<h>> ELSE <<>>,
                                   !.children = IF rest = <<>> THEN <<>>
                                                ELSE <<insertChild(rest, h)>>]

\* A mutant of splitNode: the child carrying the former suffix does not
\* receive the former handler.
splitNodeLosesHandler(n, i) ==
    [n EXCEPT !.path = Take(n.path, i),
              !.children = <<[n EXCEPT !.path = Drop(n.path, i), !.nType = "static",
                                       !.handle = <<>>]>>,
              !.wildChild = <<>>,
              !.handle = <<>>]

\* Step 2 of the insertion: the node keeps the common prefix, its former
\* suffix becomes a child carrying the former children, wildChild and handler.
splitNode(n, i) ==
    [n EXCEPT !.path = Take(n.path, i),
              !.children = <<[n EXCEPT !.path = Drop(n.path, i), !.nType = "static"]>>,
              !.wildChild = <<>>,
              !.handle = <<>>]

RECURSIVE bubble(_, _)
\* Step 5: the child at k moves towards the front while its priority exceeds
\* that of the child before it.
bubble(cs, k) ==
    IF k > 1 /\ cs[k - 1].priority < cs[k].priority
    THEN bubble([cs EXCEPT ![k - 1] = cs[k], ![k] = cs[k - 1]], k - 1)
    ELSE cs

\* Step 5 on one visited node: priority and maxParams on the way back up.
visitNode(n, r) ==
    [n EXCEPT !.priority = @ + 1,
              !.maxParams = IF countParams(r) > @ THEN countParams(r) ELSE @]

RECURSIVE addRouteAt(_, _, _)
\* The insertion walk at node n with the remaining pattern r, which begins
\* with (a prefix of) n.path.  The result is the node after the call and the
\* failure, "" when the handler was attached.
addRouteAt(n, r, h) ==
    LET i == longestCommonPrefix(r, n.path)
        n1 == IF i < Len(n.path) THEN splitNode(n, i) ELSE n
        r1 == Drop(r, i)
    IN  IF r1 = <<>>
        THEN IF n1.handle = <<>>
             THEN [err |-> "", node |-> visitNode([n1 EXCEPT !.handle = <<h>>], r)]
             ELSE [err |-> ErrDuplicate, node |-> n1]
        ELSE IF r1[1] \in Markers
        THEN IF n1.children # <<>>
             THEN [err |-> ErrConflict, node |-> n1]
             ELSE IF n1.wildChild = <<>>
             THEN [err |-> "",
                   node |-> visitNode([n1 EXCEPT !.wildChild = <<insertChild(r1, h)>>], r)]
             ELSE IF n1.wildChild[1].path # findWildcard(r1).wildcard
             THEN [err |-> ErrConflict, node |-> n1]
             ELSE LET sub == addRouteAt(n1.wildChild[1], r1, h)
                      n2 == [n1 EXCEPT !.wildChild = <<sub.node>>]
                  IN  IF sub.err # "" THEN [err |-> sub.err, node |-> n2]
                      ELSE [err |-> "", node |-> visitNode(n2, r)]
        ELSE IF n1.wildChild # <<>>
        THEN [err |-> ErrConflict, node |-> n1]
        ELSE LET ks == {k \in 1..Len(n1.children) : indices(n1)[k] = r1[1]}
             IN  IF ks = {}
                 THEN [err |-> "",
                       node |-> visitNode([n1 EXCEPT !.children =
                                               Append(@, insertChild(r1, h))], r)]
                 ELSE LET k == SetMin(ks)
                          sub == addRouteAt(n1.children[k], r1, h)
                      IN  IF sub.err # ""
                          THEN [err |-> sub.err,
                                node |-> [n1 EXCEPT !.children[k] = sub.node]]
                          ELSE [err |-> "",
                                node |-> visitNode(
                                    [n1 EXCEPT !.children =
                                         bubble([@ EXCEPT ![k] = sub.node], k)], r)]

\* node.addRoute: insert(pattern, handler).
addRoute(root, path, h) ==
    IF ~validPattern(path) THEN [err |-> ErrMalformed, node |-> root]
    ELSE IF root.path = <<>> /\ root.children = <<>> /\ root.wildChild = <<>>
    THEN [err |-> "", node |-> [insertChild(path, h) EXCEPT !.nType = "root"]]
    ELSE addRouteAt(root, path, h)

\* The parameter map of a lookup: nil until the first capture.
NilParams == [nil |-> TRUE, map |-> <<>>]

bindParam(params, name, value) ==
    [nil |-> FALSE, map |-> (name :> value) @@ params.map]

Miss == [handle |-> <<>>, params |-> NilParams]

RECURSIVE getValueAt(_, _, _, _)
\* The lookup walk at node n with the remaining path p of the request path
\* full.  A parameter node's own path was consumed by the capture.
getValueAt(n, p, full, params) ==
    LET own == IF n.nType = "param" THEN <<>> ELSE n.path
    IN  IF ~IsPrefix(own, p) THEN Miss
        ELSE LET p1 == Drop(p, Len(own))
             IN  IF p1 = <<>>
                 THEN IF n.handle # <<>>
                      THEN [handle |-> n.handle, params |-> params]
                      ELSE Miss
                 ELSE LET ks == {k \in 1..Len(n.children) : indices(n)[k] = p1[1]}
                      IN  IF ks # {}
                          THEN getValueAt(n.children[SetMin(ks)], p1, full, params)
                          ELSE IF n.wildChild = <<>> THEN Miss
                          ELSE LET w == n.wildChild[1]
                                   name == Drop(w.path, 1)
                                   sl == {k \in 1..Len(p1) : p1[k] = "/"}
                                   seglen == IF sl = {} THEN Len(p1) ELSE SetMin(sl) - 1
                               IN  IF w.nType = "catchAll"
                                   THEN [handle |-> w.handle,
                                         params |-> bindParam(params, name,
                                             Drop(full, Len(full) - Len(p1) - 1))]
                                   ELSE IF seglen = 0 THEN Miss
                                   ELSE getValueAt(w, Drop(p1, seglen), full,
                                            bindParam(params, name, Take(p1, seglen)))

\* node.getValue: lookup(path).
getValue(root, path) == getValueAt(root, path, path, NilParams)

(***************************************************************************)
(* Handlers and middleware.  A handler function is modelled by what it     *)
(* does when called: a terminal handler of kind "ok" writes its response   *)
(* and returns nil, one of kind "err" returns an error; a middleware of     *)
(* kind "pass" works, calls Next() once, works again and returns what       *)
(* Next() returned, one of kind "stop" returns nil without calling Next()   *)
(* and one of kind "fail" returns an error without calling Next(); one of   *)
(* kind "twice" calls Next() a second time after the first call returned.   *)
(***************************************************************************)
Handlers == {[id |-> "h1", kind |-> "ok"], [id |-> "h2", kind |-> "err"]}

Middlewares ==
    {[id |-> "m1", kind |-> "pass"], [id |-> "m2", kind |-> "pass"],
     [id |-> "m3", kind |-> "stop"], [id |-> "m4", kind |-> "fail"]}

RECURSIVE SeqsUpTo(_, _)
\* The sequences over S of length at most n.
SeqsUpTo(S, n) ==
    IF n = 0 THEN {<<>>}
    ELSE LET shorter == SeqsUpTo(S, n - 1)
         IN  shorter \cup {Append(q, x) : q \in shorter, x \in S}

\* A plain handler function as a value that can be called.
plain(h) == [wrap |-> FALSE, stage |-> h, next |-> <<>>]

RECURSIVE wrapReverse(_, _, _)
\* A mutant of the fold: the middleware list is walked front to back, so the
\* last middleware ends up outermost.
wrapReverse(middleware, i, finalHandler) ==
    IF i > Len(middleware) THEN finalHandler
    ELSE wrapReverse(middleware, i + 1,
             [wrap |-> TRUE, stage |-> middleware[i], next |-> <<finalHandler>>])

RECURSIVE wrapFrom(_, _, _)
\* The loop `for i := len(middleware) - 1; i >= 0; i--` (1-based here): each
\* turn wraps finalHandler in a closure that installs it as next and runs
\* middleware[i].
wrapFrom(middleware, i, finalHandler) ==
    IF i < 1 THEN finalHandler
    ELSE wrapFrom(middleware, i - 1,
             [wrap |-> TRUE, stage |-> middleware[i], next |-> <<finalHandler>>])

\* A mutant of the fold: the loop starts one short of the last middleware.
composeSkipsLast(handler, middleware) ==
    wrapFrom(middleware, Len(middleware) - 1, plain(handler))

\* Router.Handle, "Build middleware chain".
composeHandler(handler, middleware) == wrapFrom(middleware, Len(middleware), plain(handler))

buildReversed(middleware, handler) == wrapReverse(middleware, 1, plain(handler))

\* MiddlewareChain.Build.
Build(middleware, handler) == wrapFrom(middleware, Len(middleware), plain(handler))

NoResp == [status |-> 0, body |-> ""]

RECURSIVE runClosure(_, _), runStage(_, _), ctxNext(_)
\* Calling a handler value with the context: a composed closure does
\* c.SetNext(next) and returns mw(c); a plain handler just runs.
runClosure(c, st) ==
    IF c.wrap THEN runStage(c.stage, [st EXCEPT !.next = c.next])
    ELSE runStage(c.stage, st)

\* The body of one stage.
runStage(s, st) ==
    LET log(t, ev, got) ==
            [t EXCEPT !.events = Append(@, [stage |-> s.id, ev |-> ev, got |-> got])]
    IN  CASE s.kind = "ok" ->
               [log(st, "run", <<>>) EXCEPT !.ret = <<>>,
                                            !.resp = [status |-> 200, body |-> s.id]]
          [] s.kind = "err" -> [log(st, "run", <<>>) EXCEPT !.ret = <<s.id>>]
          [] s.kind = "pass" ->
               LET after == ctxNext(log(st, "pre", <<>>))
               IN  log(after, "post", after.ret)
          [] s.kind = "twice" ->
               LET first == ctxNext(log(st, "pre", <<>>))
                   second == ctxNext(log(first, "mid", first.ret))
               IN  log(second, "post", second.ret)
          [] s.kind = "stop" -> [log(st, "pre", <<>>) EXCEPT !.ret = <<>>]
          [] s.kind = "fail" -> [log(st, "pre", <<>>) EXCEPT !.ret = <<s.id>>]

\* Context.Next: calls the installed continuation, nil when there is none.
ctxNext(st) ==
    IF st.next = <<>> THEN [st EXCEPT !.ret = <<>>]
    ELSE runClosure(st.next[1], st)

(***************************************************************************)
(* The inputs the operations are run on.                                   *)
(***************************************************************************)
Methods == {"GET", "POST"}

PRoot == <<"/">>

PA == <<"/", "a">>

PAB == <<"/", "a", "b">>

PASlash == <<"/", "a", "/">>

PASlashB == <<"/", "a", "/", "b">>

PAParamX == <<"/", "a", "/", ":", "x">>

PAParamY == <<"/", "a", "/", ":", "y">>

PAParamXB == <<"/", "a", "/", ":", "x", "/", "b">>

PACatch == <<"/", "a", "/", "*", "f">>

PSCatch == <<"/", "s", "/", "*", "f">>

PParamX == <<"/", ":", "x">>

PParamXParamY == <<"/", ":", "x", "/", ":", "y">>

PNameless == <<"/", "a", "/", ":">>

PCatchInner == <<"/", "a", "/", "*", "f", "/", "b">>

PTwoMarkers == <<"/", "a", "/", ":", "x", ":", "y">>

PNoSlash == <<"a">>

\* The patterns inserted into a trie directly.
TriePatterns ==
    {PRoot, PA, PAB, PASlash, PASlashB, PAParamX, PAParamY, PAParamXB, PACatch,
     PParamX, PParamXParamY, PNameless, PCatchInner, PTwoMarkers, PNoSlash}

\* The handler of a pattern inserted into a trie directly: one per pattern.
handlerOf(path) == [id |-> path, kind |-> "ok"]

\* The registrations made through Router.Handle: every method with every
\* path, with a plain handler or with a handler behind one middleware; and
\* the calls Router.Handle refuses.
HandlePaths == {PA, PAParamX, PSCatch}

HandleArgs ==
    {<<m, p, <<[id |-> "h1", kind |-> "ok"]>>, <<>>>> : m \in Methods, p \in HandlePaths}
    \cup {<<m, p, <<[id |-> "h2", kind |-> "err"]>>, <<[id |-> "m1", kind |-> "pass"]>>>> :
              m \in Methods, p \in HandlePaths}
    \cup {<<"", PA, <<[id |-> "h1", kind |-> "ok"]>>, <<>>>>,
          <<"GET", <<>>, <<[id |-> "h1", kind |-> "ok"]>>, <<>>>>,
          <<"POST", PNoSlash, <<[id |-> "h1", kind |-> "ok"]>>, <<>>>>,
          <<"GET", PA, <<>>, <<>>>>,
          <<"POST", PAParamX, <<>>, <<[id |-> "m1", kind |-> "pass"]>>>>}

RequestPaths ==
    {PA, PASlashB, <<"/", "s", "/", "a", "/", "b">>, <<"/", "b">>}

Segs == {<<>>, <<"a">>, <<"b">>, <<"a", "b">>}

RECURSIVE Join(_)
\* "/" before every segment.
Join(segs) ==
    IF segs = <<>> THEN <<>> ELSE <<"/">> \o Head(segs) \o Join(Tail(segs))

\* Every path of one to MaxSegs segments.
Paths == {Join(q) : q \in SeqsUpTo(Segs, MaxSegs) \ {<<>>}}

(***************************************************************************)
(* The state: the router's trees (a nil tree is the empty sequence), the   *)
(* request context, the response of the request last served with the       *)
(* stage events of its chain, the middleware chain last built, and two      *)
(* records of the history: the routes inserted and the last operation.      *)
(***************************************************************************)
NoOp ==
    [op |-> "none", method |-> "", path |-> <<>>, handler |-> <<>>,
     middleware |-> <<>>, err |-> "", ret |-> <<>>, handled |-> <<>>]

NoChain == [middleware |-> <<>>, handler |-> <<>>, final |-> <<>>]

\* No group was made, and the arrays behind the groups' middleware slices
\* (arrays), the groups (list), the last registration through a group and
\* the routes registered through groups.
NoGroups == [arrays |-> <<>>, list |-> <<>>, last |-> <<>>, routes |-> {}, uses |-> 0]

\* New(): notFoundHandler and methodNotAllowedHandler are nil.
NoHooks == [notFoundHandler |-> <<>>, methodNotAllowedHandler |-> <<>>]

\* The goroutines that write to one Writer.
Goroutines == {1, 2}

\* A goroutine that is in no call of the Writer.
Idle == [pc |-> "idle", op |-> "", arg |-> 0, n |-> 0, tmp |-> 0]

\* NewWriter(w): status 200, nothing written, the mutex free (0); around it
\* the underlying ResponseWriter w (the codes its WriteHeader got, the bytes
\* its Write took, the goroutines inside it), the goroutines, and as a record
\* of the history the calls that returned and the sum of what Write returned.
NewWriter ==
    [statusCode |-> 200, written |-> FALSE, size |-> 0, mu |-> 0,
     headers |-> <<>>, body |-> 0, inside |-> {},
     procs |-> [g \in Goroutines |-> Idle],
     calls |-> <<>>, returned |-> 0]

\* The workers that take contexts from the pool.
Workers == {1, 2}

\* The zero context of the pool: no parameters, no next, no writer.
zeroContext == [params |-> NilParams, next |-> <<>>, writer |-> 0]

\* No utility function was called yet.
NoCall == [fn |-> "", args |-> <<>>, result |-> <<>>]

\* The route records of a new router: no RouteInfo allocated (infos, a
\* *RouteInfo being an index into it), routes, namedRoutes and constraints
\* nil.  A nil map reads like an empty one.
NoRegistry ==
    [infos |-> <<>>, routes |-> <<>>, namedRoutes |-> <<>>, constraints |-> <<>>]

\* The pool before any Acquire: no context made (objs), none pooled (items),
\* no worker holds one (held: 0), no worker is in a call (pc), no request
\* was served, and as a record of the history how often each context served.
NoPool ==
    [objs |-> <<>>, items |-> {}, held |-> [w \in Workers |-> 0],
     pc |-> [w \in Workers |-> "idle"], requests |-> 0, uses |-> <<>>]

\* context.Acquire and Context.Reset: nothing of an earlier request is left.
freshContext(errorHandler) ==
    [params |-> NilParams, next |-> <<>>, errorHandler |-> errorHandler]

Init ==
    /\ trees = [m \in Methods |-> <<>>]
    /\ inserted = {}
    /\ lastOp = NoOp
    /\ ctx = freshContext(FALSE)
    /\ resp = NoResp
    /\ events = <<>>
    /\ built = NoChain
    /\ groups = NoGroups
    /\ hooks = NoHooks
    /\ writer = NewWriter
    /\ pool = NoPool
    /\ util = NoCall
    /\ registry = NoRegistry

\* A mutant of treeFor: the nil check is missing, every registration starts
\* a new tree.
treeForAlwaysNew(method) == emptyNode

\* Router.Handle, "Get or create tree for method".
treeFor(method) == IF trees[method] = <<>> THEN emptyNode ELSE trees[method][1]

\* What Router.Handle refuses: the panic message (without the path the
\* second one quotes), "" for arguments it takes.
badArgs(method, path, handler) ==
    IF method = "" THEN "method must not be empty"
    ELSE IF Len(path) < 1 \/ path[1] # "/" THEN "path must begin with '/'"
    ELSE IF handler = <<>> THEN "handler must not be nil"
    ELSE ""

\* The record of a call of Router.Handle.
handleOp(method, path, handler, middleware, err) ==
    [NoOp EXCEPT !.op = "Handle", !.method = method, !.path = path,
                 !.handler = handler, !.middleware = middleware, !.err = err]

\* A mutant of Router.Handle: the handler is checked only after the tree of
\* the method was created.
HandleChecksLate(method, path, handler, middleware) ==
    IF method = "" \/ Len(path) < 1 \/ path[1] # "/"
    THEN /\ lastOp' = handleOp(method, path, handler, middleware,
                               badArgs(method, path, handler))
         /\ resp' = NoResp
         /\ events' = <<>>
         /\ UNCHANGED <<trees, inserted, ctx, built>>
    ELSE LET root == treeFor(method)
             res == IF handler = <<>>
                    THEN [err |-> badArgs(method, path, handler), node |-> root]
                    ELSE addRoute(root, path, composeHandler(handler[1], middleware))
         IN  /\ trees' = [trees EXCEPT ![method] = <<res.node>>]
             /\ inserted' = IF res.err # "" THEN inserted
                            ELSE inserted \cup {[method |-> method, path |-> path,
                                                 handler |-> handler[1],
                                                 middleware |-> middleware,
                                                 handle |-> composeHandler(handler[1], middleware)]}
             /\ lastOp' = handleOp(method, path, handler, middleware, res.err)
             /\ resp' = NoResp
             /\ events' = <<>>
             /\ UNCHANGED <<ctx, built>>

\* Router.Handle(method, path, handler, middleware...).  A panic leaves what
\* was done before it: the tree created for the method, the nodes split.
\* What it leaves alone outside the router's trees is said where it is called.
Handle(method, path, handler, middleware) ==
    IF badArgs(method, path, handler) # ""
    THEN /\ lastOp' = handleOp(method, path, handler, middleware,
                               badArgs(method, path, handler))
         /\ resp' = NoResp
         /\ events' = <<>>
         /\ UNCHANGED <<trees, inserted, ctx, built>>
    ELSE LET root == treeFor(method)
             finalHandler == composeHandler(handler[1], middleware)
             res == addRoute(root, path, finalHandler)
         IN  /\ trees' = [trees EXCEPT ![method] = <<res.node>>]
             /\ inserted' = IF res.err # "" THEN inserted
                            ELSE inserted \cup {[method |-> method, path |-> path,
                                                 handler |-> handler[1],
                                                 middleware |-> middleware,
                                                 handle |-> finalHandler]}
             /\ lastOp' = handleOp(method, path, handler, middleware, res.err)
             /\ resp' = NoResp
             /\ events' = <<>>
             /\ UNCHANGED <<ctx, built>>

\* A mutant of bindParams: SetParams is never called.
bindParamsNever(c, params) == c

\* Router.ServeHTTP, `if params != nil { c.SetParams(params) }`.
bindParams(c, params) == IF ~params.nil THEN [c EXCEPT !.params = params] ELSE c

\* A mutant of missResponse: the scan of the other methods' trees is missing.
missResponseNo405(method, path) == [status |-> 404, body |-> "Not Found"]

\* A mutant of missResponse: a path that misses only by its trailing slash is
\* redirected to the path that is registered.
missResponseRedirects(method, path) ==
    LET other == IF Len(path) > 1 /\ path[Len(path)] = "/"
                 THEN Take(path, Len(path) - 1) ELSE Append(path, "/")
    IN  IF trees[method] # <<>> /\ getValue(trees[method][1], other).handle # <<>>
        THEN [status |-> 301, body |-> ""]
        ELSE missResponseNo405(method, path)

\* Router.ServeHTTP after a miss in the method's own tree: 405 when the tree
\* of another method has a handler for the path, else 404.
missResponse(method, path) ==
    IF \E m \in Methods \ {method} :
          /\ trees[m] # <<>>
          /\ getValue(trees[m][1], path).handle # <<>>
    THEN [status |-> 405, body |-> "Method Not Allowed"]
    ELSE [status |-> 404, body |-> "Not Found"]

\* Router.ServeHTTP(w, req, c) for a request of method and path, with a
\* fresh response writer.
ServeHTTP(method, path) ==
    LET root == trees[method]
        found == IF root = <<>> THEN Miss ELSE getValue(root[1], path)
    IN  IF found.handle # <<>>
        THEN LET c1 == bindParams(ctx, found.params)
                 run == runClosure(found.handle[1],
                            [next |-> c1.next, events |-> <<>>, ret |-> <<>>,
                             resp |-> NoResp])
             IN  /\ ctx' = [c1 EXCEPT !.next = run.next]
                 /\ resp' = run.resp
                 /\ events' = run.events
                 /\ lastOp' = [NoOp EXCEPT !.op = "ServeHTTP", !.method = method,
                                  !.path = path, !.ret = run.ret,
                                  !.handled = IF run.ret # <<>> /\ c1.errorHandler
                                              THEN <<run.ret>> ELSE <<>>]
                 /\ UNCHANGED <<trees, inserted, built>>
                 /\ UNCHANGED aside
        ELSE /\ resp' = missResponse(method, path)
             /\ events' = <<>>
             /\ lastOp' = [NoOp EXCEPT !.op = "ServeHTTP", !.method = method,
                                       !.path = path]
             /\ UNCHANGED <<trees, inserted, ctx, built>>
             /\ UNCHANGED aside

\* context.Acquire, Context.Reset and, with errorHandler, setting the error
\* handler of the context: what a caller does before it serves a request.
Reset(errorHandler) ==
    /\ ctx # freshContext(errorHandler)
    /\ ctx' = freshContext(errorHandler)
    /\ lastOp' = [NoOp EXCEPT !.op = "Reset"]
    /\ resp' = NoResp
    /\ events' = <<>>
    /\ UNCHANGED <<trees, inserted, built>>
    /\ UNCHANGED aside

\* root.addRoute(path, handler) on the tree of GET, as the trie is used
\* without a router.
NodeAddRoute(path, handler) ==
    LET root == IF trees["GET"] = <<>> THEN emptyNode ELSE trees["GET"][1]
        res == addRoute(root, path, plain(handler))
    IN  /\ trees' = [trees EXCEPT !["GET"] = <<res.node>>]
        /\ inserted' = IF res.err # "" THEN inserted
                       ELSE inserted \cup {[method |-> "GET", path |-> path,
                                            handler |-> handler,
                                            middleware |-> <<>>,
                                            handle |-> plain(handler)]}
        /\ lastOp' = [NoOp EXCEPT !.op = "addRoute", !.method = "GET", !.path = path,
                                  !.handler = <<handler>>, !.err = res.err]
        /\ UNCHANGED <<ctx, resp, events, built>>
        /\ UNCHANGED aside

\* NewMiddlewareChain(middleware...).Build(handler).
ChainBuild(middleware, handler) ==
    /\ built' = [middleware |-> middleware, handler |-> <<handler>>,
                 final |-> <<Build(middleware, handler)>>]
    /\ lastOp' = [NoOp EXCEPT !.op = "Build", !.handler = <<handler>>,
                              !.middleware = middleware]
    /\ resp' = NoResp
    /\ events' = <<>>
    /\ UNCHANGED <<trees, inserted, ctx>>
    /\ UNCHANGED aside

\* finalHandler(c) on a zero context, the handler being the chain last built.
ChainRun ==
    /\ built.final # <<>>
    /\ LET run == runClosure(built.final[1],
                      [next |-> <<>>, events |-> <<>>, ret |-> <<>>, resp |-> NoResp])
       IN  /\ ctx' = [freshContext(FALSE) EXCEPT !.next = run.next]
           /\ resp' = run.resp
           /\ events' = run.events
           /\ lastOp' = [NoOp EXCEPT !.op = "Run", !.handler = built.handler,
                                     !.middleware = built.middleware,
                                     !.ret = run.ret]
    /\ UNCHANGED <<trees, inserted, built>>
    /\ UNCHANGED aside

\* The router: registration and dispatch.
Next ==
    \/ \E a \in HandleArgs :
          /\ Handle(a[1], a[2], a[3], a[4])
          /\ Cardinality(inserted') <= MaxHandle
          /\ UNCHANGED aside
    \/ \E method \in Methods, path \in RequestPaths : ServeHTTP(method, path)
    \/ \E errorHandler \in BOOLEAN : Reset(errorHandler)

Spec == Init /\ [][Next]_vars

\* The trie alone: insertions into one tree.
NextTrie ==
    \E path \in TriePatterns :
        /\ NodeAddRoute(path, handlerOf(path))
        /\ Cardinality(inserted') <= MaxRoutes

SpecTrie == Init /\ [][NextTrie]_vars

\* The middleware chain: built by MiddlewareChain.Build and run, or built by
\* Router.Handle for the route GET / and run by a dispatch.
NextChain ==
    \/ \E middleware \in SeqsUpTo(Middlewares, MaxMw), handler \in Handlers :
          /\ inserted = {}
          /\ built = NoChain
          /\ ChainBuild(middleware, handler)
    \/ ChainRun
    \/ \E middleware \in SeqsUpTo(Middlewares, MaxMw), handler \in Handlers :
          /\ inserted = {}
          /\ built = NoChain
          /\ Handle("GET", PRoot, <<handler>>, middleware)
          /\ UNCHANGED aside
    \/ \E errorHandler \in BOOLEAN : Reset(errorHandler)
    \/ ServeHTTP("GET", PRoot)

SpecChain == Init /\ [][NextChain]_vars

(***************************************************************************)
(* What a pattern matches, read off the pattern grammar alone: the trie    *)
(* is not consulted.  A path matches a pattern when their segments pair up: *)
(* a static segment with an equal one, a parameter with a non-empty one, a  *)
(* catch-all with a non-empty remainder.                                    *)
(***************************************************************************)
SegsOf(p) == Tail(Split(p))

RECURSIVE segsMatch(_, _)
segsMatch(ps, qs) ==
    IF ps = <<>> THEN qs = <<>>
    ELSE IF qs = <<>> THEN FALSE
    ELSE IF Head(ps) # <<>> /\ Head(ps)[1] = "*" THEN Join(qs) # <<"/">>
    ELSE IF Head(ps) # <<>> /\ Head(ps)[1] = ":"
    THEN Head(qs) # <<>> /\ segsMatch(Tail(ps), Tail(qs))
    ELSE Head(ps) = Head(qs) /\ segsMatch(Tail(ps), Tail(qs))

Matches(pattern, path) ==
    /\ Len(path) >= 1
    /\ path[1] = "/"
    /\ segsMatch(SegsOf(pattern), SegsOf(path))

RECURSIVE segsCapture(_, _)
\* The captures of a path that matches: name -> segment for a parameter,
\* name -> the remainder with its leading '/' for a catch-all.
segsCapture(ps, qs) ==
    IF ps = <<>> THEN <<>>
    ELSE IF Head(ps) # <<>> /\ Head(ps)[1] = "*" THEN Tail(Head(ps)) :> Join(qs)
    ELSE IF Head(ps) # <<>> /\ Head(ps)[1] = ":"
    THEN (Tail(Head(ps)) :> Head(qs)) @@ segsCapture(Tail(ps), Tail(qs))
    ELSE segsCapture(Tail(ps), Tail(qs))

Captures(pattern, path) == segsCapture(SegsOf(pattern), SegsOf(path))

\* The lookup the router makes for a method: a nil tree yields nothing.
lookupIn(t, method, path) ==
    IF t[method] = <<>> THEN Miss ELSE getValue(t[method][1], path)

lookup(method, path) == lookupIn(trees, method, path)

IsWild(seg) == seg # <<>> /\ seg[1] \in Markers

\* Two patterns conflict when, after equal leading segments, they differ in a
\* segment that is a wildcard in one of them and a wildcard or a static
\* segment in the other.
Conflicts(p, q) ==
    LET ps == SegsOf(p)
        qs == SegsOf(q)
    IN  \E k \in 1..min(Len(ps), Len(qs)) :
           /\ \A j \in 1..(k - 1) : ps[j] = qs[j]
           /\ ps[k] # qs[k]
           /\ ps[k] # <<>>
           /\ qs[k] # <<>>
           /\ (IsWild(ps[k]) \/ IsWild(qs[k]))

\* How often a stage was entered in the last dispatch.
Entered(id) ==
    Cardinality({k \in 1..Len(events) :
                    events[k].stage = id /\ events[k].ev \in {"pre", "run"}})

(***************************************************************************)
(* Claims about the dispatch loop.                                         *)
(***************************************************************************)
\* C1: when the tree of the request's method yields no handler for the path,
\* ServeHTTP answers 405 "Method Not Allowed" if the tree of another method
\* yields a handler for it and 404 "Not Found" otherwise, and no handler or
\* middleware is invoked.
C1_MissIs405Or404 ==
    (lastOp.op = "ServeHTTP" /\ lookup(lastOp.method, lastOp.path).handle = <<>>)
    => /\ events = <<>>
       /\ lastOp.ret = <<>>
       /\ lastOp.handled = <<>>
       /\ IF \E m \in Methods \ {lastOp.method} :
                lookup(m, lastOp.path).handle # <<>>
          THEN resp = [status |-> 405, body |-> "Method Not Allowed"]
          ELSE resp = [status |-> 404, body |-> "Not Found"]

\* A request whose path is registered under the other method only was
\* answered 405.
C1_Witness ==
    /\ lastOp.op = "ServeHTTP"
    /\ lookup(lastOp.method, lastOp.path).handle = <<>>
    /\ \E r \in inserted : r.method # lastOp.method /\ Matches(r.path, lastOp.path)
    /\ resp.status = 405

\* C2: when the tree of the request's method yields a handler, ServeHTTP
\* binds every captured parameter into the context, enters the composed
\* handler of the matching route exactly once, and writes neither the 404
\* nor the 405 response, whatever the other methods registered.
C2_MatchDispatches ==
    (lastOp.op = "ServeHTTP" /\ lookup(lastOp.method, lastOp.path).handle # <<>>)
    => LET found == lookup(lastOp.method, lastOp.path)
       IN  /\ \A n \in DOMAIN found.params.map :
                 /\ n \in DOMAIN ctx.params.map
                 /\ ctx.params.map[n] = found.params.map[n]
           /\ \E r \in inserted :
                 /\ r.method = lastOp.method
                 /\ Matches(r.path, lastOp.path)
                 /\ r.handle = found.handle[1]
                 /\ LET outer == IF r.middleware = <<>> THEN r.handler.id
                                 ELSE r.middleware[1].id
                    IN  /\ events # <<>>
                        /\ events[1].stage = outer
                        /\ Entered(outer) = 1
                        /\ Entered(r.handler.id) = 1
           /\ resp.status \notin {404, 405}

\* A parameter route was dispatched while the other method has a route for
\* the same path.
C2_Witness ==
    /\ lastOp.op = "ServeHTTP"
    /\ lookup(lastOp.method, lastOp.path).handle # <<>>
    /\ ~lookup(lastOp.method, lastOp.path).params.nil
    /\ \E m \in Methods \ {lastOp.method} : lookup(m, lastOp.path).handle # <<>>
    /\ Len(events) = 3

(***************************************************************************)
(* Claims about the middleware chain.                                      *)
(***************************************************************************)
\* The chain the last operation ran, if it ran one: the middleware list and
\* the terminal handler it was composed from.
ChainRan ==
    IF lastOp.op = "Run"
    THEN <<[middleware |-> lastOp.middleware, handler |-> lastOp.handler[1]]>>
    ELSE IF lastOp.op = "ServeHTTP" /\ lookup(lastOp.method, lastOp.path).handle # <<>>
    THEN LET r == CHOOSE r \in inserted :
                      r.method = lastOp.method /\ Matches(r.path, lastOp.path)
         IN  <<[middleware |-> r.middleware, handler |-> r.handler]>>
    ELSE <<>>

\* C3: when every middleware of [m1..mn] calls Next() exactly once, running
\* the composed handler gives the events m1-pre, ..., mn-pre, h, mn-post,
\* ..., m1-post.
C3_OnionOrder ==
    \A c \in {ChainRan[k] : k \in 1..Len(ChainRan)} :
        (\A k \in 1..Len(c.middleware) : c.middleware[k].kind = "pass")
        => LET n == Len(c.middleware)
           IN  /\ Len(events) = 2 * n + 1
               /\ \A k \in 1..n :
                     /\ events[k].stage = c.middleware[k].id
                     /\ events[k].ev = "pre"
                     /\ events[2 * n + 2 - k].stage = c.middleware[k].id
                     /\ events[2 * n + 2 - k].ev = "post"
               /\ events[n + 1].stage = c.handler.id
               /\ events[n + 1].ev = "run"

\* A built chain of two different middleware that both call Next() was run.
C3_Witness ==
    /\ lastOp.op = "Run"
    /\ Len(lastOp.middleware) >= 2
    /\ \A k \in 1..Len(lastOp.middleware) : lastOp.middleware[k].kind = "pass"
    /\ lastOp.middleware[1] # lastOp.middleware[2]
    /\ Len(events) = 2 * Len(lastOp.middleware) + 1

\* C4: when middleware mi returns without calling Next() (the middleware
\* before it call Next() once and return what it returned), no later stage
\* and not the terminal handler is invoked, the stage that called mi receives
\* the value mi returned, and so does the router, whose error handler gets
\* it when it is an error.
C4_ShortCircuit ==
    \A c \in {ChainRan[k] : k \in 1..Len(ChainRan)} :
        LET stoppers == {k \in 1..Len(c.middleware) :
                            c.middleware[k].kind \in {"stop", "fail"}}
        IN  stoppers # {}
            => LET i == SetMin(stoppers)
                   val == IF c.middleware[i].kind = "fail"
                          THEN <<c.middleware[i].id>> ELSE <<>>
               IN  /\ Len(events) = 2 * i - 1
                   /\ \A k \in 1..i :
                         /\ events[k].stage = c.middleware[k].id
                         /\ events[k].ev = "pre"
                   /\ \A k \in 1..(i - 1) :
                         events[i + k] = [stage |-> c.middleware[i - k].id,
                                          ev |-> "post", got |-> val]
                   /\ lastOp.ret = val
                   /\ (lastOp.op = "ServeHTTP" /\ ctx.errorHandler /\ val # <<>>)
                      => lastOp.handled = <<val>>

\* A dispatch ran a chain whose second of three middleware returned an error
\* without calling Next(), and the error handler of the context received it.
C4_Witness ==
    /\ lastOp.op = "ServeHTTP"
    /\ ChainRan # <<>>
    /\ Len(ChainRan[1].middleware) = 3
    /\ ChainRan[1].middleware[1].kind = "pass"
    /\ ChainRan[1].middleware[2].kind = "fail"
    /\ lastOp.handled = <<lastOp.ret>>
    /\ Len(events) = 3

(***************************************************************************)
(* Claims about registration.                                              *)
(***************************************************************************)
\* C8: registering a pattern that already owns a handler under the same
\* method panics with a duplicate pattern and every lookup still returns the
\* handler registered first; registering a pattern owned under another
\* method only (and in conflict with nothing of its own method) succeeds.
C8_DuplicateRefused ==
    [][(lastOp'.op = "Handle"
        /\ badArgs(lastOp'.method, lastOp'.path, lastOp'.handler) = "")
       => LET own == {r \in inserted : r.method = lastOp'.method}
              same == {r \in own : r.path = lastOp'.path}
          IN  IF same # {}
              THEN /\ lastOp'.err = ErrDuplicate
                   /\ inserted' = inserted
                   /\ \A r \in same, p \in RequestPaths :
                         Matches(r.path, p)
                         => lookupIn(trees', r.method, p).handle = <<r.handle>>
              ELSE ((\E r \in inserted : r.path = lastOp'.path)
                    /\ \A r \in own : ~Conflicts(r.path, lastOp'.path))
                   => /\ lastOp'.err = ""
                      /\ \E r \in inserted' :
                            r.method = lastOp'.method /\ r.path = lastOp'.path]_vars

\* A pattern was registered again under its method with another handler and
\* refused, and its path still finds the first handler.
C8_Witness ==
    /\ lastOp.op = "Handle"
    /\ lastOp.err = ErrDuplicate
    /\ \E r \in inserted :
          /\ r.method = lastOp.method
          /\ r.path = lastOp.path
          /\ <<r.handler>> # lastOp.handler
          /\ \E p \in RequestPaths : lookup(r.method, p).handle = <<r.handle>>
    /\ \E r \in inserted : r.method # lastOp.method /\ r.path = lastOp.path

\* C10: Router.Handle panics on an empty method, on a path that is empty or
\* does not begin with '/', and on a nil handler, and then no tree is created
\* and no tree is modified.
C10_RefusedHandleChangesNothing ==
    [][(lastOp'.op = "Handle"
        /\ (\/ lastOp'.method = ""
            \/ Len(lastOp'.path) < 1
            \/ lastOp'.path[1] # "/"
            \/ lastOp'.handler = <<>>))
       => /\ lastOp'.err \in {"method must not be empty",
                              "path must begin with '/'",
                              "handler must not be nil"}
          /\ trees' = trees
          /\ inserted' = inserted]_vars

\* A nil handler was refused for a method that has no tree.
C10_Witness ==
    /\ lastOp.op = "Handle"
    /\ lastOp.handler = <<>>
    /\ lastOp.err = "handler must not be nil"
    /\ trees[lastOp.method] = <<>>

(***************************************************************************)
(* Claims about the trie.                                                  *)
(***************************************************************************)
\* C5: after any successful insertions, the lookup of a path returns the
\* handler registered with the inserted pattern the path matches, and no
\* handler when the path matches no inserted pattern.
C5_LookupFindsRegistered ==
    \A path \in Paths :
        LET ms == {r \in inserted : r.method = "GET" /\ Matches(r.path, path)}
        IN  IF ms = {} THEN lookup("GET", path).handle = <<>>
            ELSE \A r \in ms : lookup("GET", path).handle = <<r.handle>>

\* Three patterns were inserted, one with a parameter; one path finds a
\* handler and another finds none.
C5_Witness ==
    /\ Cardinality(inserted) = 3
    /\ \E r \in inserted : r.path = PAParamXB
    /\ \E path \in Paths : lookup("GET", path).handle = <<plain(handlerOf(PAParamXB))>>
    /\ \E path \in Paths : lookup("GET", path).handle = <<>>

\* The routes whose pattern is static up to a last segment `:name`.
ParamRoutes ==
    {r \in inserted :
        /\ countParams(r.path) = 1
        /\ IsWild(SegsOf(r.path)[Len(SegsOf(r.path))])
        /\ SegsOf(r.path)[Len(SegsOf(r.path))][1] = ":"}

\* C6: a parameter segment matches exactly one non-empty path segment and
\* captures name -> that segment: with only a pattern prefix/:name inserted,
\* a path finds the handler exactly when it is the prefix followed by one
\* non-empty segment without '/', and then the parameters are name -> that
\* segment; an empty segment and an extra segment do not match.
C6_ParamMatchesOneSegment ==
    \A r \in ParamRoutes :
        inserted = {r}
        => LET colon == SetMin({k \in 1..Len(r.path) : r.path[k] = ":"})
               prefix == Take(r.path, colon - 1)
               name == Drop(r.path, colon)
           IN  \A path \in Paths :
                   LET found == lookup("GET", path)
                       seg == Drop(path, Len(prefix))
                   IN  IF /\ IsPrefix(prefix, path)
                          /\ seg # <<>>
                          /\ \A k \in 1..Len(seg) : seg[k] # "/"
                       THEN /\ found.handle = <<r.handle>>
                            /\ found.params.map = (name :> seg)
                       ELSE found.handle = <<>>

\* Only /a/:x is inserted: /a/ab finds it with x = "ab", /a/ and /a/ab/b
\* find nothing.
C6_Witness ==
    /\ \E r \in inserted : r.path = PAParamX /\ inserted = {r}
    /\ lookup("GET", <<"/", "a", "/", "a", "b">>).params.map = (<<"x">> :> <<"a", "b">>)
    /\ lookup("GET", <<"/", "a", "/">>).handle = <<>>
    /\ lookup("GET", <<"/", "a", "/", "a", "b", "/", "b">>).handle = <<>>

\* The routes whose pattern ends in a catch-all segment.
CatchAllRoutes ==
    {r \in inserted :
        /\ IsWild(SegsOf(r.path)[Len(SegsOf(r.path))])
        /\ SegsOf(r.path)[Len(SegsOf(r.path))][1] = "*"}

\* C7: a catch-all segment `*name` captures the whole unconsumed remainder
\* of the path, embedded slashes and its leading '/' included.
C7_CatchAllCapturesRemainder ==
    \A r \in CatchAllRoutes, path \in Paths :
        Matches(r.path, path)
        => LET found == lookup("GET", path)
               star == SetMin({k \in 1..Len(r.path) : r.path[k] = "*"})
               name == Drop(r.path, star)
           IN  /\ found.handle = <<r.handle>>
               /\ name \in DOMAIN found.params.map
               /\ found.params.map[name] = Captures(r.path, path)[name]
               /\ found.params.map[name][1] = "/"
               /\ (countParams(r.path) = 1
                   => found.params.map[name] = Drop(path, star - 2))

\* /a/*f is inserted and /a/b/ab captures f = "/b/ab".
C7_Witness ==
    /\ \E r \in inserted : r.path = PACatch
    /\ lookup("GET", <<"/", "a", "/", "b", "/", "a", "b">>).params.map
           = (<<"f">> :> <<"/", "b", "/", "a", "b">>)

NoMw == [id |-> "nil", kind |-> "nil"]

NilSlice == [arr |-> 0, len |-> 0, cap |-> 0]

\* The elements a slice holds.
sliceValue(arrays, s) == IF s.arr = 0 THEN <<>> ELSE Take(arrays[s.arr], s.len)

\* The small allocation size classes of the Go runtime, in bytes.
SizeClasses == {8, 16, 24, 32, 48, 64, 80, 96, 112, 128}

roundupsize(size) == SetMin({c \in SizeClasses : c >= size})

\* The capacity append allocates when newLen elements do not fit in oldCap:
\* twice the old capacity or newLen if that is more, rounded up to a size
\* class; a func value takes 8 bytes.
growslice(oldCap, newLen) ==
    LET doublecap == oldCap + oldCap
        newcap == IF newLen > doublecap THEN newLen ELSE doublecap
    IN  roundupsize(newcap * 8) \div 8

\* The slice of a variadic parameter: nil without arguments, else a fresh
\* array that the arguments fill.
variadic(arrays, xs) ==
    IF xs = <<>> THEN [arrays |-> arrays, slice |-> NilSlice]
    ELSE [arrays |-> Append(arrays, xs),
          slice |-> [arr |-> Len(arrays) + 1, len |-> Len(xs), cap |-> Len(xs)]]

\* append(s, xs...): in place, in the array of s, when the capacity of s
\* holds the result; else into a fresh array.
append(arrays, s, xs) ==
    LET newLen == s.len + Len(xs)
    IN  IF xs = <<>> THEN [arrays |-> arrays, slice |-> s]
        ELSE IF newLen <= s.cap
        THEN [arrays |-> [arrays EXCEPT ![s.arr] =
                             Take(@, s.len) \o xs \o Drop(@, newLen)],
              slice |-> [s EXCEPT !.len = newLen]]
        ELSE LET newcap == growslice(s.cap, newLen)
             IN  [arrays |-> Append(arrays,
                                 sliceValue(arrays, s) \o xs
                                     \o [k \in 1..(newcap - newLen) |-> NoMw]),
                  slice |-> [arr |-> Len(arrays) + 1, len |-> newLen, cap |-> newcap]]

(***************************************************************************)
(* Route groups.  A group is its prefix, its middleware slice and, as a    *)
(* record of the history, chain: the prefix and the middleware list of     *)
(* every Group call that led to it, outermost first, and expected: the     *)
(* list its parent had when it was made, followed by the middleware it was *)
(* made with and the middleware Use added to it.                           *)
(***************************************************************************)
\* Groups made in one run.
MaxGroups == 3

\* Routes registered through groups in one run.
MaxGroupRoutes == 1

PB == <<"/", "b">>

\* The middleware lists given to a group of the router, those given to a
\* group of a group, and those given to a route of a group.
GroupLists ==
    {<<[id |-> "m1", kind |-> "pass"]>>,
     <<[id |-> "m1", kind |-> "pass"], [id |-> "m2", kind |-> "pass"]>>}

SubgroupLists == {<<[id |-> "m1", kind |-> "pass"]>>}

RouteLists == {<<>>, <<[id |-> "m2", kind |-> "pass"]>>}

RECURSIVE prefixTimes(_, _)
\* prefix, n times.
prefixTimes(prefix, n) == IF n = 0 THEN <<>> ELSE prefix \o prefixTimes(prefix, n - 1)

\* The requests for the routes of the groups.
GroupRequestPaths == {prefixTimes(PA, d) \o PB : d \in 1..MaxGroups}

\* Router.Group(prefix, middleware...): the group holds the parameter slice.
RouterGroup(prefix, middleware) ==
    LET v == variadic(groups.arrays, middleware)
    IN  /\ groups' = [groups EXCEPT
                         !.arrays = v.arrays,
                         !.list = Append(@, [prefix |-> prefix, middleware |-> v.slice,
                                             chain |-> <<[prefix |-> prefix,
                                                          middleware |-> middleware]>>,
                                             expected |-> middleware]),
                         !.last = <<>>]
        /\ lastOp' = [NoOp EXCEPT !.op = "Group"]
        /\ resp' = NoResp
        /\ events' = <<>>
        /\ UNCHANGED <<trees, inserted, ctx, built, hooks, writer, pool, util, registry>>

\* Group.Group(prefix, middleware...) on the group at g.
GroupGroup(g, prefix, middleware) ==
    LET parent == groups.list[g]
        a == append(groups.arrays, parent.middleware, middleware)
    IN  /\ groups' = [groups EXCEPT
                         !.arrays = a.arrays,
                         !.list = Append(@, [prefix |-> parent.prefix \o prefix,
                                             middleware |-> a.slice,
                                             chain |-> Append(parent.chain,
                                                          [prefix |-> prefix,
                                                           middleware |-> middleware]),
                                             expected |->
                                                 sliceValue(groups.arrays,
                                                            parent.middleware)
                                                     \o middleware]),
                         !.last = <<>>]
        /\ lastOp' = [NoOp EXCEPT !.op = "Group"]
        /\ resp' = NoResp
        /\ events' = <<>>
        /\ UNCHANGED <<trees, inserted, ctx, built, hooks, writer, pool, util, registry>>

\* A mutant of allMiddleware: the route's own middleware is left out.
allMiddlewareGroupOnly(arrays, g, middleware) == [arrays |-> arrays, slice |-> g.middleware]

\* Group.handle, "Combine group middleware with route-specific middleware".
allMiddleware(arrays, g, middleware) == append(arrays, g.middleware, middleware)

\* Group.handle(method, path, handler, middleware...) on the group at g, as
\* GET, POST and the other verbs of a group call it.  Router.Handle reads the
\* combined slice while it runs, so what it gets is the value of the slice.
\* A fresh array behind the combined slice is garbage after the call and is
\* not kept; a write into the array of the group stays.
GroupHandle(g, method, path, handler, middleware) ==
    LET grp == groups.list[g]
        a == allMiddleware(groups.arrays, grp, middleware)
        fullPath == grp.prefix \o path
    IN  /\ Handle(method, fullPath, handler, sliceValue(a.arrays, a.slice))
        /\ groups' = [groups EXCEPT
                         !.arrays = IF a.slice.arr = grp.middleware.arr
                                    THEN a.arrays ELSE @,
                         !.last = <<[group |-> g, method |-> method, path |-> path,
                                     handler |-> handler, middleware |-> middleware,
                                     G |-> sliceValue(groups.arrays, grp.middleware)]>>,
                         !.routes = IF lastOp'.err # "" THEN @
                                    ELSE @ \cup {[method |-> method, path |-> fullPath,
                                                  group |-> g, handler |-> handler[1],
                                                  G |-> sliceValue(groups.arrays,
                                                                   grp.middleware),
                                                  middleware |-> middleware]}]
        /\ UNCHANGED <<hooks, writer, pool, util, registry>>

\* Groups, routes registered through them, and dispatch.
NextGroup ==
    \/ \E middleware \in GroupLists :
          /\ groups.list = <<>>
          /\ RouterGroup(PA, middleware)
    \/ \E g \in 1..Len(groups.list), middleware \in SubgroupLists :
          /\ Len(groups.list) < MaxGroups
          /\ GroupGroup(g, PA, middleware)
    \/ \E g \in 1..Len(groups.list), middleware \in RouteLists :
          /\ GroupHandle(g, "GET", PB, <<[id |-> "h1", kind |-> "ok"]>>, middleware)
          /\ Cardinality(inserted') <= MaxGroupRoutes
    \/ \E path \in GroupRequestPaths : ServeHTTP("GET", path)

SpecGroup == Init /\ [][NextGroup]_vars

(***************************************************************************)
(* Claims about route groups.                                              *)
(***************************************************************************)
\* C11: registering (method, subpath, handler, extra) through a group with
\* prefix p and middleware list G does to the router what
\* Router.Handle(method, p + subpath, handler, G ++ extra) does; and a
\* dispatch of the route registered so answers at p + subpath and enters
\* every middleware of G in list order, then every middleware of extra, then
\* the handler.
C11_GroupHandleIsHandle ==
    /\ [][(lastOp'.op = "Handle" /\ groups'.last # <<>>)
          => LET c == groups'.last[1]
                 grp == groups.list[c.group]
                 G == sliceValue(groups.arrays, grp.middleware)
             IN  Handle(c.method, grp.prefix \o c.path, c.handler, G \o c.middleware)]_vars
    /\ [](lastOp.op = "ServeHTTP"
          => \A r \in groups.routes :
                (r.method = lastOp.method /\ r.path = lastOp.path)
                => LET ms == r.G \o r.middleware
                       n == Len(ms)
                   IN  /\ resp = [status |-> 200, body |-> r.handler.id]
                       /\ Len(events) = 2 * n + 1
                       /\ \A k \in 1..n :
                             events[k].stage = ms[k].id /\ events[k].ev = "pre"
                       /\ events[n + 1].stage = r.handler.id
                       /\ events[n + 1].ev = "run")

\* A route registered with a middleware of its own through a group nested in
\* a group of two middleware was dispatched.
C11_Witness ==
    /\ lastOp.op = "ServeHTTP"
    /\ \E r \in groups.routes :
          /\ r.method = lastOp.method
          /\ r.path = lastOp.path
          /\ Len(groups.list[r.group].chain) = 2
          /\ Len(r.G) = 3
          /\ r.middleware # <<>>
          /\ Len(events) = 9

RECURSIVE chainPrefix(_), chainMiddleware(_)
\* The prefixes of a chain of Group calls, concatenated.
chainPrefix(chain) ==
    IF chain = <<>> THEN <<>> ELSE Head(chain).prefix \o chainPrefix(Tail(chain))

\* The middleware lists of a chain of Group calls, concatenated.
chainMiddleware(chain) ==
    IF chain = <<>> THEN <<>> ELSE Head(chain).middleware \o chainMiddleware(Tail(chain))

\* C12: for every chain of nested groups, the innermost group's prefix is
\* the concatenation of the prefixes and its middleware list is the
\* concatenation of the middleware lists, outermost first.
C12_NestedGroupConcatenates ==
    \A k \in 1..Len(groups.list) :
        LET g == groups.list[k]
        IN  /\ g.prefix = chainPrefix(g.chain)
            /\ sliceValue(groups.arrays, g.middleware) = chainMiddleware(g.chain)

(***************************************************************************)
(* The router's customization hooks, and dispatch on routes that differ by *)
(* a trailing slash.                                                       *)
(***************************************************************************)
\* Router.SetNotFoundHandler(handler).
SetNotFoundHandler(handler) ==
    /\ hooks' = [hooks EXCEPT !.notFoundHandler = handler]
    /\ lastOp' = [NoOp EXCEPT !.op = "SetNotFoundHandler", !.handler = handler]
    /\ resp' = NoResp
    /\ events' = <<>>
    /\ UNCHANGED <<trees, inserted, ctx, built, groups, writer, pool, util, registry>>

\* Router.SetMethodNotAllowedHandler(handler).
SetMethodNotAllowedHandler(handler) ==
    /\ hooks' = [hooks EXCEPT !.methodNotAllowedHandler = handler]
    /\ lastOp' = [NoOp EXCEPT !.op = "SetMethodNotAllowedHandler", !.handler = handler]
    /\ resp' = NoResp
    /\ events' = <<>>
    /\ UNCHANGED <<trees, inserted, ctx, built, groups, writer, pool, util, registry>>

\* The custom handlers: each writes a response of its own.
CustomNotFound == [id |-> "Custom Not Found", kind |-> "ok"]

CustomMethodNotAllowed == [id |-> "Custom Method Not Allowed", kind |-> "ok"]

\* The patterns and the request paths with and without a trailing slash.
SlashPaths == {PA, PASlash}

\* Registration of /a and /a/, the hooks, and dispatch.
NextDispatch ==
    \/ \E method \in Methods, path \in SlashPaths :
          /\ Handle(method, path, <<[id |-> "h1", kind |-> "ok"]>>, <<>>)
          /\ Cardinality(inserted') <= MaxHandle
          /\ UNCHANGED aside
    \/ \E handler \in {<<>>, <<CustomNotFound>>} : SetNotFoundHandler(handler)
    \/ \E handler \in {<<>>, <<CustomMethodNotAllowed>>} :
          SetMethodNotAllowedHandler(handler)
    \/ \E method \in Methods, path \in SlashPaths : ServeHTTP(method, path)

SpecDispatch == Init /\ [][NextDispatch]_vars

(***************************************************************************)
(* Claims about dispatch on a miss and on an error.                        *)
(***************************************************************************)
\* C13: patterns that differ only by a trailing slash are distinct: a request
\* is dispatched only to a route of its method whose pattern is its path;
\* with /a alone registered a request for /a/ under that method gets 404, and
\* so does /a with /a/ alone registered; no response is a redirect.
C13_TrailingSlashDistinct ==
    lastOp.op = "ServeHTTP"
    => LET own == {r \in inserted : r.method = lastOp.method /\ r.path = lastOp.path}
           others == {r \in inserted : r.method # lastOp.method /\ r.path = lastOp.path}
       IN  /\ resp.status \notin {301, 302, 307, 308}
           /\ own = {} => (events = <<>> /\ resp.status \in {404, 405})
           /\ (own = {} /\ others = {})
              => resp = [status |-> 404, body |-> "Not Found"]
           /\ own # {} => resp.status = 200

\* With only /a registered, a request for /a/ under the same method got 404.
C13_Witness ==
    /\ lastOp.op = "ServeHTTP"
    /\ lastOp.path = PASlash
    /\ \E r \in inserted : inserted = {r} /\ r.path = PA /\ r.method = lastOp.method
    /\ resp.status = 404
    /\ events = <<>>

\* C14: after SetNotFoundHandler(h), a dispatch that finds the path under no
\* method invokes h and does not write the default 404; after
\* SetMethodNotAllowedHandler(h), a dispatch that finds the path under another
\* method only invokes h and does not write the default 405.
C14_CustomHandlersUsed ==
    (lastOp.op = "ServeHTTP" /\ lookup(lastOp.method, lastOp.path).handle = <<>>)
    => LET allowed == \E m \in Methods \ {lastOp.method} :
                          lookup(m, lastOp.path).handle # <<>>
       IN  /\ (~allowed /\ hooks.notFoundHandler # <<>>)
              => /\ Entered(hooks.notFoundHandler[1].id) = 1
                 /\ resp # [status |-> 404, body |-> "Not Found"]
           /\ (allowed /\ hooks.methodNotAllowedHandler # <<>>)
              => /\ Entered(hooks.methodNotAllowedHandler[1].id) = 1
                 /\ resp # [status |-> 405, body |-> "Method Not Allowed"]

\* C15: when the matched composed handler returns an error, the error
\* handler bound to the context is invoked with it, and without a bound error
\* handler a 500 response is emitted.
C15_ErrorBecomesResponse ==
    (lastOp.op = "ServeHTTP" /\ lastOp.ret # <<>>)
    => IF ctx.errorHandler THEN lastOp.handled = <<lastOp.ret>>
       ELSE resp.status = 500

(***************************************************************************)
(* response.Writer: WriteHeader and Write, statement by statement, called  *)
(* by the goroutines of one request.  pc is where a goroutine stands in    *)
(* its call; a call of the underlying ResponseWriter is entered in one     *)
(* step and left in another.                                               *)
(***************************************************************************)
\* Calls of the Writer made in one run.
MaxCalls == 3

\* The status codes given to WriteHeader and the lengths of the data given
\* to Write.
Codes == {404, 500}

DataLens == {1, 2}

besidesWriter ==
    <<trees, inserted, lastOp, ctx, resp, events, built, groups, hooks, pool,
      util, registry>>

\* The calls begun so far.
callsBegun ==
    Len(writer.calls) + Cardinality({g \in Goroutines : writer.procs[g].pc # "idle"})

\* The goroutine g moves to pc.
goto(g, pc) == [writer EXCEPT !.procs[g].pc = pc]

\* A goroutine calls w.WriteHeader(code).
CallWriteHeader(g, code) ==
    /\ writer.procs[g].pc = "idle"
    /\ callsBegun < MaxCalls
    /\ writer' = [writer EXCEPT !.procs[g] =
                     [Idle EXCEPT !.pc = "lock", !.op = "WriteHeader", !.arg = code]]
    /\ UNCHANGED besidesWriter

\* A goroutine calls w.Write(data) with len(data) bytes.
CallWrite(g, len) ==
    /\ writer.procs[g].pc = "idle"
    /\ callsBegun < MaxCalls
    /\ writer' = [writer EXCEPT !.procs[g] =
                     [Idle EXCEPT !.pc = "lock", !.op = "Write", !.arg = len]]
    /\ UNCHANGED besidesWriter

\* A mutant of canLock: Lock does not wait.
canLockAlways(g) == TRUE

\* w.mu.Lock() returns when no goroutine holds the mutex.
canLock(g) == writer.mu = 0

\* w.mu.Lock().
Lock(g) ==
    /\ writer.procs[g].pc = "lock"
    /\ canLock(g)
    /\ writer' = [writer EXCEPT
                     !.mu = g,
                     !.procs[g].pc = IF writer.procs[g].op = "WriteHeader"
                                     THEN "wh_check" ELSE "w_check"]
    /\ UNCHANGED besidesWriter

\* WriteHeader: `if w.written { return }`, then `w.statusCode = code`.
WriteHeaderCheck(g) ==
    /\ writer.procs[g].pc = "wh_check"
    /\ writer' = IF writer.written THEN goto(g, "unlock")
                 ELSE [writer EXCEPT !.statusCode = writer.procs[g].arg,
                                     !.procs[g].pc = "wh_forward"]
    /\ UNCHANGED besidesWriter

\* WriteHeader: w.ResponseWriter.WriteHeader(code) is entered.
WriteHeaderForward(g) ==
    /\ writer.procs[g].pc = "wh_forward"
    /\ writer' = [writer EXCEPT !.inside = @ \cup {g},
                                !.procs[g].pc = "wh_forwarded"]
    /\ UNCHANGED besidesWriter

\* WriteHeader: w.ResponseWriter.WriteHeader(code) returns.
WriteHeaderReturn(g) ==
    /\ writer.procs[g].pc = "wh_forwarded"
    /\ writer' = [writer EXCEPT !.inside = @ \ {g},
                                !.headers = Append(@, writer.procs[g].arg),
                                !.procs[g].pc = "unlock"]
    /\ UNCHANGED besidesWriter

\* Write: `if !w.written`.
WriteCheck(g) ==
    /\ writer.procs[g].pc = "w_check"
    /\ writer' = goto(g, IF writer.written THEN "w_write" ELSE "w_header")
    /\ UNCHANGED besidesWriter

\* Write: w.ResponseWriter.WriteHeader(w.statusCode) is entered.
WriteDefaultHeader(g) ==
    /\ writer.procs[g].pc = "w_header"
    /\ writer' = [writer EXCEPT !.inside = @ \cup {g},
                                !.procs[g].tmp = writer.statusCode,
                                !.procs[g].pc = "w_headered"]
    /\ UNCHANGED besidesWriter

\* Write: w.ResponseWriter.WriteHeader returns, then `w.written = true`.
WriteDefaultHeaderReturn(g) ==
    /\ writer.procs[g].pc = "w_headered"
    /\ writer' = [writer EXCEPT !.inside = @ \ {g},
                                !.headers = Append(@, writer.procs[g].tmp),
                                !.written = TRUE,
                                !.procs[g].pc = "w_write"]
    /\ UNCHANGED besidesWriter

\* Write: w.ResponseWriter.Write(data) is entered.
WriteData(g) ==
    /\ writer.procs[g].pc = "w_write"
    /\ writer' = [writer EXCEPT !.inside = @ \cup {g},
                                !.procs[g].pc = "w_written"]
    /\ UNCHANGED besidesWriter

\* Write: w.ResponseWriter.Write(data) returns n, all of the data or, with
\* an error, less.
WriteDataReturn(g, n) ==
    /\ writer.procs[g].pc = "w_written"
    /\ n <= writer.procs[g].arg
    /\ writer' = [writer EXCEPT !.inside = @ \ {g},
                                !.body = @ + n,
                                !.procs[g].n = n,
                                !.procs[g].pc = "w_size"]
    /\ UNCHANGED besidesWriter

\* Write: `w.size += n` reads w.size.
WriteSizeRead(g) ==
    /\ writer.procs[g].pc = "w_size"
    /\ writer' = [writer EXCEPT !.procs[g].tmp = writer.size,
                                !.procs[g].pc = "w_add"]
    /\ UNCHANGED besidesWriter

\* Write: `w.size += n` stores the sum.
WriteSizeStore(g) ==
    /\ writer.procs[g].pc = "w_add"
    /\ writer' = [writer EXCEPT !.size = writer.procs[g].tmp + writer.procs[g].n,
                                !.procs[g].pc = "unlock"]
    /\ UNCHANGED besidesWriter

\* The deferred w.mu.Unlock(), and the call returns.
Unlock(g) ==
    /\ writer.procs[g].pc = "unlock"
    /\ writer' = [writer EXCEPT
                     !.mu = IF @ = g THEN 0 ELSE @,
                     !.calls = Append(@, [g |-> g, op |-> writer.procs[g].op,
                                          arg |-> writer.procs[g].arg,
                                          n |-> writer.procs[g].n]),
                     !.returned = @ + writer.procs[g].n,
                     !.procs[g] = Idle]
    /\ UNCHANGED besidesWriter

\* w.Status().
Status == writer.statusCode

\* w.Size().
Size == writer.size

\* The goroutines of one request on one Writer.
NextWriter ==
    \E g \in Goroutines :
        \/ \E code \in Codes : CallWriteHeader(g, code)
        \/ \E len \in DataLens : CallWrite(g, len)
        \/ Lock(g)
        \/ WriteHeaderCheck(g)
        \/ WriteHeaderForward(g)
        \/ WriteHeaderReturn(g)
        \/ WriteCheck(g)
        \/ WriteDefaultHeader(g)
        \/ WriteDefaultHeaderReturn(g)
        \/ WriteData(g)
        \/ \E n \in 0..SetMax(DataLens) : WriteDataReturn(g, n)
        \/ WriteSizeRead(g)
        \/ WriteSizeStore(g)
        \/ Unlock(g)

SpecWriter == Init /\ [][NextWriter]_vars

(***************************************************************************)
(* Claims about the Writer.                                                *)
(***************************************************************************)
\* C16: WriteHeader is idempotent: after a first call WriteHeader(a), later
\* calls are ignored: Status() stays a and no other code reaches the
\* underlying ResponseWriter.
C16_WriteHeaderIdempotent ==
    (writer.calls # <<>> /\ writer.calls[1].op = "WriteHeader")
    => /\ Status = writer.calls[1].arg
       /\ \A k \in 1..Len(writer.headers) : writer.headers[k] = writer.calls[1].arg

\* C17: calls of Write and WriteHeader by two goroutines are serialized: no
\* two goroutines are inside the underlying ResponseWriter at once, and when
\* every call has returned the size is the sum of what the Write calls
\* returned.
C17_WriterSerialized ==
    /\ Cardinality(writer.inside) <= 1
    /\ (\A g \in Goroutines : writer.procs[g].pc = "idle")
       => Size = writer.returned

\* After a Write of one goroutine returned, the other goroutine is inside
\* the underlying writer with its Write while the first waits for the mutex
\* with a WriteHeader.
C17_Witness ==
    /\ Len(writer.calls) = 1
    /\ writer.calls[1].op = "Write"
    /\ Size = writer.calls[1].n
    /\ Size > 0
    /\ \E g, h \in Goroutines :
          /\ g # h
          /\ g = writer.calls[1].g
          /\ writer.procs[g].pc = "lock"
          /\ writer.procs[g].op = "WriteHeader"
          /\ writer.procs[h].pc = "w_written"
          /\ writer.inside = {h}

(***************************************************************************)
(* The context pool: workers that acquire a context, bind a request to it, *)
(* serve the request and release the context.                              *)
(***************************************************************************)
\* Contexts the pool makes in one run, and requests served in one run.
MaxContexts == 2

MaxRequests == 3

besidesPool ==
    <<trees, inserted, lastOp, ctx, resp, events, built, groups, hooks, writer,
      util, registry>>

\* context.Acquire(): a pooled context, or a new one; a pool may make a new
\* one also when it holds some.
Acquire(w) ==
    /\ pool.pc[w] = "idle"
    /\ pool.requests < MaxRequests
    /\ \/ \E i \in pool.items :
             pool' = [pool EXCEPT !.items = @ \ {i}, !.held[w] = i,
                                  !.pc[w] = "acquired", !.requests = @ + 1]
       \/ /\ Len(pool.objs) < MaxContexts
          /\ pool' = [pool EXCEPT !.objs = Append(@, zeroContext),
                                  !.uses = Append(@, 0),
                                  !.held[w] = Len(pool.objs) + 1,
                                  !.pc[w] = "acquired", !.requests = @ + 1]
    /\ UNCHANGED besidesPool

\* c.Reset(w, req): the context is bound to the writer of the request.
ContextReset(w) ==
    /\ pool.pc[w] = "acquired"
    /\ pool' = [pool EXCEPT !.objs[pool.held[w]].writer = pool.requests,
                            !.pc[w] = "bound"]
    /\ UNCHANGED besidesPool

\* The request is served: a dispatch binds the captured parameters and the
\* composed handler installs its next stage.
ContextServe(w, params, next) ==
    /\ pool.pc[w] = "bound"
    /\ pool' = [pool EXCEPT !.objs[pool.held[w]].params = params,
                            !.objs[pool.held[w]].next = next,
                            !.uses[pool.held[w]] = @ + 1,
                            !.pc[w] = "served"]
    /\ UNCHANGED besidesPool

\* A mutant of cleared: the parameters are left in the context.
clearedKeepsParams(c) == [c EXCEPT !.next = <<>>, !.writer = 0]

\* What release() leaves of a context.
cleared(c) == [c EXCEPT !.params = NilParams, !.next = <<>>, !.writer = 0]

\* context.Release(c): the context is cleared.
ReleaseClear(w) ==
    /\ pool.pc[w] = "served"
    /\ pool' = [pool EXCEPT !.objs[pool.held[w]] = cleared(@),
                            !.pc[w] = "cleared"]
    /\ UNCHANGED besidesPool

\* context.Release(c): the cleared context is put into the pool.
ReleasePut(w) ==
    /\ pool.pc[w] = "cleared"
    /\ pool' = [pool EXCEPT !.items = @ \cup {pool.held[w]},
                            !.held[w] = 0,
                            !.pc[w] = "idle"]
    /\ UNCHANGED besidesPool

\* The parameters and the next stage a served request leaves in its context.
ServedParams == {NilParams, bindParam(NilParams, <<"x">>, <<"a">>)}

ServedNext == {<<>>, <<plain([id |-> "h1", kind |-> "ok"])>>}

\* The workers of the pool.
NextPool ==
    \E w \in Workers :
        \/ Acquire(w)
        \/ ContextReset(w)
        \/ \E params \in ServedParams, next \in ServedNext : ContextServe(w, params, next)
        \/ ReleaseClear(w)
        \/ ReleasePut(w)

SpecPool == Init /\ [][NextPool]_vars

\* C18: a context that Acquire hands out has no parameters, no installed
\* next and no writer of an earlier request, whichever worker served with it
\* before and however Acquire and Release interleave; and no two workers
\* hold one context.
C18_AcquiredContextIsClean ==
    /\ \A w \in Workers :
          pool.pc[w] = "acquired" => pool.objs[pool.held[w]] = zeroContext
    /\ \A w, v \in Workers :
          (w # v /\ pool.held[w] # 0) => pool.held[w] # pool.held[v]

\* A worker acquired a context that served a request before and was
\* released, while the other worker has served a request with another context
\* and not released it.
C18_Witness ==
    \E w, v \in Workers :
        /\ w # v
        /\ pool.pc[w] = "acquired"
        /\ pool.uses[pool.held[w]] >= 1
        /\ pool.pc[v] = "served"
        /\ pool.objs[pool.held[v]].next # <<>>
        /\ ~pool.objs[pool.held[v]].params.nil

(***************************************************************************)
(* Claims about the order of insertions and about maxParams.               *)
(***************************************************************************)
\* The orders in which the routes of S can be inserted.
Perms(S) ==
    {q \in [1..Cardinality(S) -> S] : \A r \in S : \E k \in DOMAIN q : q[k] = r}

RECURSIVE insertAll(_, _)
\* root.addRoute for every route of q in turn, up to the first failure.
insertAll(root, q) ==
    IF q = <<>> THEN [err |-> "", node |-> root]
    ELSE LET res == addRoute(root, Head(q).path, Head(q).handle)
         IN  IF res.err # "" THEN res ELSE insertAll(res.node, Tail(q))

RECURSIVE unordered(_)
\* The node n without what the order of insertions may influence: the
\* priority counters and the order of the children.
unordered(n) ==
    [path |-> n.path, nType |-> n.nType, handle |-> n.handle,
     maxParams |-> n.maxParams,
     wildChild |-> IF n.wildChild = <<>> THEN <<>> ELSE <<unordered(n.wildChild[1])>>,
     children |-> {unordered(n.children[k]) : k \in 1..Len(n.children)}]

\* C19: the patterns inserted so far can be inserted in every order, the
\* trie of every order answers the lookup of every path with the handler and
\* the parameters the present trie answers with, and the tries of two orders
\* differ in priority counters and child ordering only.
C19_InsertionOrderIrrelevant ==
    LET first == insertAll(emptyNode, CHOOSE p \in Perms(inserted) : TRUE)
    IN  \A q \in Perms(inserted) :
            LET t == insertAll(emptyNode, q)
            IN  /\ t.err = ""
                /\ \A path \in Paths : getValue(t.node, path) = lookup("GET", path)
                /\ unordered(t.node) = unordered(first.node)

\* Three patterns were inserted, another order of them builds a different
\* tree, and a lookup captures a parameter.
C19_Witness ==
    /\ Cardinality(inserted) = 3
    /\ \E q \in Perms(inserted) : <<insertAll(emptyNode, q).node>> # trees["GET"]
    /\ \E path \in Paths : ~lookup("GET", path).params.nil

\* The number of wildcard markers of a pattern.
markers(path) == Cardinality({k \in 1..Len(path) : path[k] \in Markers})

RECURSIVE boundsChildren(_)
\* maxParams of n and of every node below it is no less than that of each of
\* its children, the wildChild included.
boundsChildren(n) ==
    /\ \A k \in 1..Len(n.children) :
          /\ n.maxParams >= n.children[k].maxParams
          /\ boundsChildren(n.children[k])
    /\ n.wildChild # <<>> =>
          /\ n.maxParams >= n.wildChild[1].maxParams
          /\ boundsChildren(n.wildChild[1])

\* C20: after any insertions, maxParams of the root is no less than the
\* number of markers of every inserted pattern, and maxParams of every node
\* is no less than that of each of its children.
C20_MaxParamsBounds ==
    trees["GET"] # <<>> =>
        /\ \A r \in inserted : trees["GET"][1].maxParams >= markers(r.path)
        /\ boundsChildren(trees["GET"][1])

\* A pattern with two parameters and a pattern with one were inserted, the
\* root has maxParams 2 and a node below its wildChild has maxParams 1.
C20_Witness ==
    /\ \E r \in inserted : markers(r.path) = 2
    /\ \E r \in inserted : markers(r.path) = 1
    /\ trees["GET"][1].maxParams = 2
    /\ trees["GET"][1].wildChild # <<>>
    /\ \E k \in 1..Len(trees["GET"][1].wildChild[1].children) :
          trees["GET"][1].wildChild[1].children[k].maxParams = 1

(***************************************************************************)
(* The utility functions called on their own: findWildcard of router.go    *)
(* and RouteUtils.  util records the last call, its arguments and its      *)
(* result.                                                                 *)
(***************************************************************************)
\* Bytes of a string handed to a utility function.
UtilBytes == {"/", ":", "*", "a"}

\* Length of such a string.
MaxPathLen == 4

UtilStrings == SeqsUpTo(UtilBytes, MaxPathLen)

PCatchAll == <<"/", "*", "f">>

\* The patterns handed to MatchPath and ExtractParams.
UtilPatterns == {PA, PAB, PAParamX, PParamXParamY, PACatch, PCatchAll}

besidesUtil ==
    <<trees, inserted, lastOp, ctx, resp, events, built, groups, hooks, writer,
      pool, registry>>

\* strings.HasPrefix(s, prefix) for a one-byte prefix.
HasPrefix(s, b) == s # <<>> /\ s[1] = b

\* strings.HasSuffix(s, suffix) for a one-byte suffix.
HasSuffix(s, b) == s # <<>> /\ s[Len(s)] = b

\* strings.Contains(s, "//").
ContainsSlashSlash(s) == \E k \in 1..(Len(s) - 1) : s[k] = "/" /\ s[k + 1] = "/"

RECURSIVE ReplaceAllSlashSlash(_)
\* strings.ReplaceAll(s, "//", "/"): the non-overlapping occurrences from the
\* left, each replaced once.
ReplaceAllSlashSlash(s) ==
    IF Len(s) < 2 THEN s
    ELSE IF s[1] = "/" /\ s[2] = "/" THEN <<"/">> \o ReplaceAllSlashSlash(Drop(s, 2))
    ELSE <<s[1]>> \o ReplaceAllSlashSlash(Drop(s, 1))

RECURSIVE stringsJoin(_)
\* strings.Join(parts, "/").
stringsJoin(parts) ==
    IF parts = <<>> THEN <<>>
    ELSE IF Len(parts) = 1 THEN parts[1]
    ELSE parts[1] \o <<"/">> \o stringsJoin(Tail(parts))

RECURSIVE matchParts(_, _, _)
\* The loop of MatchPath from part i on.
matchParts(patternParts, pathParts, i) ==
    IF i > Len(patternParts) THEN TRUE
    ELSE IF HasPrefix(patternParts[i], ":")
    THEN IF pathParts[i] = <<>> THEN FALSE
         ELSE matchParts(patternParts, pathParts, i + 1)
    ELSE IF HasPrefix(patternParts[i], "*") THEN TRUE
    ELSE IF patternParts[i] # pathParts[i] THEN FALSE
    ELSE matchParts(patternParts, pathParts, i + 1)

\* RouteUtils.MatchPath.
MatchPath(pattern, path) ==
    IF pattern = path THEN TRUE
    ELSE LET patternParts == Split(pattern)
             pathParts == Split(path)
         IN  IF Len(patternParts) # Len(pathParts) THEN FALSE
             ELSE matchParts(patternParts, pathParts, 1)

RECURSIVE extractParts(_, _, _, _)
\* The loop of ExtractParams from part i on, params being the map so far.
extractParts(patternParts, pathParts, i, params) ==
    IF i > Len(patternParts) THEN params
    ELSE IF HasPrefix(patternParts[i], ":")
    THEN extractParts(patternParts, pathParts, i + 1,
                      (Drop(patternParts[i], 1) :> pathParts[i]) @@ params)
    ELSE IF HasPrefix(patternParts[i], "*")
    THEN (Drop(patternParts[i], 1) :>
              stringsJoin(SubSeq(pathParts, i, Len(pathParts)))) @@ params
    ELSE extractParts(patternParts, pathParts, i + 1, params)

\* RouteUtils.ExtractParams: a map, name -> value.
ExtractParams(pattern, path) ==
    LET patternParts == Split(pattern)
        pathParts == Split(path)
    IN  IF Len(patternParts) # Len(pathParts) THEN <<>>
        ELSE extractParts(patternParts, pathParts, 1, <<>>)

RECURSIVE cleanSlashes(_)
\* for strings.Contains(path, "//") { path = strings.ReplaceAll(path, "//", "/") }
cleanSlashes(path) ==
    IF ContainsSlashSlash(path) THEN cleanSlashes(ReplaceAllSlashSlash(path))
    ELSE path

\* RouteUtils.NormalizePath.
NormalizePath(path) ==
    IF path = <<>> THEN <<"/">>
    ELSE LET p1 == IF ~HasPrefix(path, "/") THEN <<"/">> \o path ELSE path
             p2 == IF p1 # <<"/">> /\ HasSuffix(p1, "/")
                   THEN Take(p1, Len(p1) - 1) ELSE p1
         IN  cleanSlashes(p2)

CallFindWildcard(path) ==
    /\ util = NoCall
    /\ util' = [fn |-> "findWildcard", args |-> <<path>>,
                result |-> <<findWildcard(path)>>]
    /\ UNCHANGED besidesUtil

CallMatchPath(pattern, path) ==
    /\ util = NoCall
    /\ util' = [fn |-> "MatchPath", args |-> <<pattern, path>>,
                result |-> <<MatchPath(pattern, path)>>]
    /\ UNCHANGED besidesUtil

CallExtractParams(pattern, path) ==
    /\ util = NoCall
    /\ util' = [fn |-> "ExtractParams", args |-> <<pattern, path>>,
                result |-> <<ExtractParams(pattern, path)>>]
    /\ UNCHANGED besidesUtil

CallNormalizePath(path) ==
    /\ util = NoCall
    /\ util' = [fn |-> "NormalizePath", args |-> <<path>>,
                result |-> <<NormalizePath(path)>>]
    /\ UNCHANGED besidesUtil

\* The utility functions, each called once with every argument of the
\* bounds: they are pure, so a call after another shows nothing new.
NextUtils ==
    \/ \E path \in UtilStrings : CallFindWildcard(path)
    \/ \E pattern \in UtilPatterns, path \in Paths : CallMatchPath(pattern, path)
    \/ \E pattern \in UtilPatterns, path \in Paths : CallExtractParams(pattern, path)
    \/ \E path \in UtilStrings : CallNormalizePath(path)

SpecUtils == Init /\ [][NextUtils]_vars

\* C21: findWildcard returns ("", -1, false) for a path without ':' and '*';
\* otherwise the wildcard it returns starts at the first marker and ends
\* before the next '/', ':' or '*' (or at the end of path), the index is that
\* of the first marker, and valid is false exactly when the segment of the
\* wildcard holds a second marker.
C21_FindWildcardResult ==
    util.fn = "findWildcard" =>
        LET path == util.args[1]
            res == util.result[1]
            starts == {k \in 1..Len(path) : path[k] \in Markers}
        IN  IF starts = {} THEN res = [wildcard |-> <<>>, i |-> -1, valid |-> FALSE]
            ELSE LET start == SetMin(starts)
                     stops == {k \in (start + 1)..Len(path) :
                                   path[k] \in Markers \cup {"/"}}
                     slashes == {k \in (start + 1)..Len(path) : path[k] = "/"}
                     stop == IF stops = {} THEN Len(path) + 1 ELSE SetMin(stops)
                     segEnd == IF slashes = {} THEN Len(path) + 1 ELSE SetMin(slashes)
                 IN  /\ res.wildcard = SubSeq(path, start, stop - 1)
                     /\ res.i = start - 1
                     /\ res.valid = ~(\E k \in (start + 1)..(segEnd - 1) :
                                          path[k] \in Markers)

\* The parts of pattern before its last one agree with the parts of path at
\* the same positions: a parameter with a non-empty part, a static part with
\* an equal one.
precedingMatch(patternParts, pathParts) ==
    /\ Len(pathParts) >= Len(patternParts)
    /\ \A k \in 1..(Len(patternParts) - 1) :
          IF HasPrefix(patternParts[k], ":") THEN pathParts[k] # <<>>
          ELSE patternParts[k] = pathParts[k]

\* The path supplies what the pattern asks for: with a trailing catch-all the
\* preceding parts and at least one more, else as many parts as the pattern,
\* each agreeing.
partsMatch(patternParts, pathParts) ==
    IF HasPrefix(patternParts[Len(patternParts)], "*")
    THEN precedingMatch(patternParts, pathParts)
    ELSE /\ Len(pathParts) = Len(patternParts)
         /\ precedingMatch(patternParts \o <<<<>>>>, pathParts \o <<<<>>>>)

\* C22: for a pattern whose last segment is a catch-all, MatchPath is true
\* when the path matches the preceding segments and has at least one further
\* segment, however many, and false otherwise.
C22_MatchPathCatchAll ==
    (/\ util.fn = "MatchPath"
     /\ HasPrefix(Split(util.args[1])[Len(Split(util.args[1]))], "*")) =>
        util.result[1] = precedingMatch(Split(util.args[1]), Split(util.args[2]))

\* The map ExtractParams is to return for a path that supplies every segment
\* of the pattern: each parameter with the part at its position, a trailing
\* catch-all with the remaining parts joined by '/'.
expectedParams(patternParts, pathParts) ==
    LET names == {k \in 1..Len(patternParts) :
                      HasPrefix(patternParts[k], ":") \/ HasPrefix(patternParts[k], "*")}
    IN  [name \in {Drop(patternParts[k], 1) : k \in names} |->
            LET k == CHOOSE j \in names : Drop(patternParts[j], 1) = name
            IN  IF HasPrefix(patternParts[k], ":") THEN pathParts[k]
                ELSE stringsJoin(SubSeq(pathParts, k, Len(pathParts)))]

\* C23: for a path that matches the pattern, ExtractParams returns name ->
\* the part at the same position for every parameter and name -> the
\* remaining parts joined by '/' for a trailing catch-all; for a pattern
\* without wildcards the map is empty.
C23_ExtractParamsResult ==
    (/\ util.fn = "ExtractParams"
     /\ partsMatch(Split(util.args[1]), Split(util.args[2]))) =>
        /\ util.result[1] = expectedParams(Split(util.args[1]), Split(util.args[2]))
        /\ countParams(util.args[1]) = 0 => util.result[1] = <<>>

\* A path in normal form: a leading '/', no "//", no trailing '/' unless it
\* is "/".
normalForm(p) ==
    /\ HasPrefix(p, "/")
    /\ ~ContainsSlashSlash(p)
    /\ HasSuffix(p, "/") => p = <<"/">>

\* C24: NormalizePath returns a path in normal form for every input, and
\* normalizing its result again changes nothing.
C24_NormalizePathIdempotent ==
    util.fn = "NormalizePath" =>
        /\ normalForm(util.result[1])
        /\ NormalizePath(util.result[1]) = util.result[1]

(***************************************************************************)
(* A middleware that calls Next() twice.                                   *)
(***************************************************************************)
\* The middleware of the chains with a second Next().
TwiceMiddlewares ==
    {[id |-> "m1", kind |-> "pass"], [id |-> "m2", kind |-> "pass"],
     [id |-> "m3", kind |-> "stop"], [id |-> "m5", kind |-> "twice"]}

\* The chains of different middleware, so that a stage is known by its id.
TwiceChains ==
    {q \in SeqsUpTo(TwiceMiddlewares, MaxMw) :
        \A j, k \in 1..Len(q) : q[j] = q[k] => j = k}

\* Chains built by MiddlewareChain.Build and run.
NextTwice ==
    \/ \E middleware \in TwiceChains, handler \in Handlers :
          /\ built = NoChain
          /\ ChainBuild(middleware, handler)
    \/ ChainRun

SpecTwice == Init /\ [][NextTwice]_vars

\* The events at which a stage of that kind calls Next(): "pre" before its
\* first call, "mid" before its second.
callsNext(kind) ==
    IF kind = "pass" THEN {"pre"} ELSE IF kind = "twice" THEN {"pre", "mid"} ELSE {}

\* C25: in one run of a composed chain every stage is entered at most once;
\* the first call of Next() by the middleware at position i enters the stage
\* at position i + 1 (the terminal handler after the last middleware), and a
\* second call by the same middleware enters no other stage than that one.
C25_NextRunsFollowingStage ==
    lastOp.op = "Run" =>
        LET mw == lastOp.middleware
            n == Len(mw)
            stageId(k) == IF k <= n THEN mw[k].id ELSE lastOp.handler[1].id
            entries == {k \in 1..Len(events) : events[k].ev \in {"pre", "run"}}
        IN  /\ \A j, k \in entries : events[j].stage = events[k].stage => j = k
            /\ \A k \in 1..(Len(events) - 1), i \in 1..n :
                  (/\ events[k].stage = mw[i].id
                   /\ events[k].ev \in callsNext(mw[i].kind))
                  => /\ events[k].ev = "pre" => (k + 1) \in entries
                     /\ (k + 1) \in entries => events[k + 1].stage = stageId(i + 1)

(***************************************************************************)
(* Group.Use, and groups that share a backing array.                       *)
(***************************************************************************)
\* Calls of Group.Use in one run.
MaxUses == 2

\* The middleware lists given to Group.Use.
UseLists == {<<[id |-> "m3", kind |-> "stop"]>>}

\* Group.Use(middleware...) on the group at g.
GroupUse(g, middleware) ==
    LET grp == groups.list[g]
        a == append(groups.arrays, grp.middleware, middleware)
    IN  /\ groups' = [groups EXCEPT
                         !.arrays = a.arrays,
                         !.list[g] = [grp EXCEPT !.middleware = a.slice,
                                                 !.expected = @ \o middleware],
                         !.last = <<>>,
                         !.uses = @ + 1]
        /\ lastOp' = [NoOp EXCEPT !.op = "Use"]
        /\ resp' = NoResp
        /\ events' = <<>>
        /\ UNCHANGED <<trees, inserted, ctx, built, hooks, writer, pool, util, registry>>

\* Groups, Use on them, and routes registered through them.
NextUse ==
    \/ \E middleware \in GroupLists :
          /\ groups.list = <<>>
          /\ RouterGroup(PA, middleware)
    \/ \E g \in 1..Len(groups.list), middleware \in SubgroupLists :
          /\ Len(groups.list) < MaxGroups
          /\ GroupGroup(g, PA, middleware)
    \/ \E g \in 1..Len(groups.list), middleware \in UseLists :
          /\ groups.uses < MaxUses
          /\ GroupUse(g, middleware)
    \/ \E g \in 1..Len(groups.list), middleware \in RouteLists :
          /\ GroupHandle(g, "GET", PB, <<[id |-> "h1", kind |-> "ok"]>>, middleware)
          /\ Cardinality(inserted') <= MaxGroupRoutes

SpecUse == Init /\ [][NextUse]_vars

\* C26: after any Group.Use, Group.Group and route registrations, the
\* middleware list of every group is the list its parent had when the group
\* was made, followed by the middleware it was made with and the middleware
\* Use added to it since: no operation on another group changed it.
C26_GroupListsIndependent ==
    \A k \in 1..Len(groups.list) :
        sliceValue(groups.arrays, groups.list[k].middleware) = groups.list[k].expected

(***************************************************************************)
(* advanced.go: routes built by a RouteBuilder, and their names.           *)
(***************************************************************************)
\* Calls of RouteBuilder.Build in one run.
MaxBuilds == 2

\* The names given to routes.
RouteNames == {"n1", "n2"}

\* What the builders are set to before Build: method, path, name (""
\* without one) and the parameters with a constraint.
BuildArgs ==
    {<<"GET", PA, name, {}>> : name \in {""} \cup RouteNames}
    \cup {<<"GET", PAParamX, name, {"x"}>> : name \in {"", "n1"}}
    \cup {<<"GET", PNoSlash, "n1", {"x"}>>, <<"", PA, "n1", {}>>}

\* A Go map read at a key it may lack: the zero value v for a missing key.
mapGet(m, k, v) == IF k \in DOMAIN m THEN m[k] ELSE v

\* RouteBuilder.Build with Router.registerAdvancedRoute: the constraints, the
\* route record and the name are stored before Router.Handle is called, and
\* a panic of Router.Handle leaves them stored.  returned records whether
\* Build came back with a *Route.
RouteBuilderBuild(method, path, name, handler, constraints) ==
    IF method = "" \/ path = <<>> \/ handler = <<>>
    THEN /\ lastOp' = [NoOp EXCEPT !.op = "RouteBuilder.Build", !.method = method,
                                   !.path = path, !.handler = handler,
                                   !.err = "method, path, and handler are required"]
         /\ resp' = NoResp
         /\ events' = <<>>
         /\ UNCHANGED <<trees, inserted, ctx, built>>
         /\ UNCHANGED aside
    ELSE LET info == Len(registry.infos) + 1
         IN  /\ Handle(method, path, handler, <<>>)
             /\ registry' =
                    [infos |-> Append(registry.infos,
                                   [Method |-> method, Path |-> path, Name |-> name,
                                    Handler |-> handler[1],
                                    returned |-> lastOp'.err = ""]),
                     routes |-> Append(registry.routes, info),
                     namedRoutes |-> IF name # ""
                                     THEN (name :> info) @@ registry.namedRoutes
                                     ELSE registry.namedRoutes,
                     constraints |->
                         IF constraints # {}
                         THEN (path :> (mapGet(registry.constraints, path, {})
                                            \cup constraints))
                                  @@ registry.constraints
                         ELSE registry.constraints]
             /\ UNCHANGED <<groups, hooks, writer, pool, util>>

\* Route.Name(name) on the *Route that Build returned for the record info.
RouteName(info, name) ==
    /\ registry.infos[info].returned
    /\ registry' = [registry EXCEPT !.infos[info].Name = name,
                                    !.namedRoutes = (name :> info) @@ @]
    /\ lastOp' = [NoOp EXCEPT !.op = "Name"]
    /\ resp' = NoResp
    /\ events' = <<>>
    /\ UNCHANGED <<trees, inserted, ctx, built, groups, hooks, writer, pool, util>>

\* Routes built and named.
NextRegistry ==
    \/ \E a \in BuildArgs :
          /\ Len(registry.infos) < MaxBuilds
          /\ RouteBuilderBuild(a[1], a[2], a[3], <<[id |-> "h1", kind |-> "ok"]>>, a[4])
    \/ \E info \in 1..Len(registry.infos), name \in RouteNames : RouteName(info, name)

SpecRegistry == Init /\ [][NextRegistry]_vars

\* C27: after any Route.Name and RouteBuilder.Build calls, every name of
\* namedRoutes leads to a record that carries this name, and a name that
\* leads to a record does not come to lead to another record.
C27_NamedRoutesConsistent ==
    /\ [](\A name \in DOMAIN registry.namedRoutes :
             registry.infos[registry.namedRoutes[name]].Name = name)
    /\ [][\A name \in DOMAIN registry.namedRoutes :
             registry'.namedRoutes[name] = registry.namedRoutes[name]]_vars

\* C28: a Build that panics leaves routes, namedRoutes and constraints as
\* they were, so that they hold entries only for routes whose method and path
\* were inserted into the trie.
C28_FailedBuildChangesNothing ==
    /\ [][lastOp'.err # ""
          => /\ registry'.routes = registry.routes
             /\ registry'.namedRoutes = registry.namedRoutes
             /\ registry'.constraints = registry.constraints]_vars
    /\ [](LET isInserted(info) ==
                  \E r \in inserted : /\ r.method = registry.infos[info].Method
                                      /\ r.path = registry.infos[info].Path
          IN  /\ \A k \in 1..Len(registry.routes) : isInserted(registry.routes[k])
              /\ \A name \in DOMAIN registry.namedRoutes :
                    isInserted(registry.namedRoutes[name])
              /\ \A path \in DOMAIN registry.constraints :
                    \E r \in inserted : r.path = path)

(***************************************************************************)
(* Claims about the context a dispatch leaves behind.                      *)
(***************************************************************************)
\* C29: after ServeHTTP dispatched to a matched route, the parameters of the
\* context are exactly those the lookup of this request captured, whatever
\* the context held before: none when the route captures none.
C29_ParamsAreThisRequests ==
    (lastOp.op = "ServeHTTP" /\ lookup(lastOp.method, lastOp.path).handle # <<>>)
    => ctx.params.map = lookup(lastOp.method, lastOp.path).params.map

\* C30: for every sequence of WriteHeader and Write calls on one Writer the
\* underlying ResponseWriter receives WriteHeader at most once, and when the
\* calls have returned the code it received is the one Status() reports.
C30_HeaderForwardedOnce ==
    /\ Len(writer.headers) <= 1
    /\ (writer.headers # <<>> /\ \A g \in Goroutines : writer.procs[g].pc = "idle")
       => writer.headers[1] = Status

====
